---- MODULE Spec2Model ----
(***************************************************************************)
(* PBIP Impact Analyzer: dependency graph, rename planning and the         *)
(* transactional applier.                                                  *)
(*                                                                         *)
(* Text is modelled as a sequence of lexemes (a name, a keyword or a       *)
(* punctuation mark is one lexeme), so that the substring operations of    *)
(* the code (split/join, replace, includes, the parsers' regular           *)
(* expressions) are sub-sequence operations here.                          *)
(***************************************************************************)
EXTENDS Integers, Sequences, FiniteSets, TLC

(***************************************************************************)
(* Bounds of the model.                                                    *)
(***************************************************************************)
\* how many times the model may be reloaded by the user in one behaviour
MaxReloads == 2
\* how many rename previews the user may request in one behaviour
MaxPreviews == 2
\* how many storage operations may be made to fail in one behaviour
MaxFaults == 2
\* largest depth bound handed to findAllUpstream / findAllDownstream
MaxDepthArg == 2

(***************************************************************************)
(* Sequences of lexemes.                                                   *)
(***************************************************************************)
Min(a, b) == IF a < b THEN a ELSE b

\* p occurs in s starting at position i
MatchAt(s, p, i) ==
    /\ i >= 1
    /\ i + Len(p) - 1 <= Len(s)
    /\ \A k \in 1..Len(p) : s[i + k - 1] = p[k]

\* first position >= from at which p occurs in s, 0 when there is none
RECURSIVE IndexFrom(_, _, _)
IndexFrom(s, p, from) ==
    IF from + Len(p) - 1 > Len(s) THEN 0
    ELSE IF MatchAt(s, p, from) THEN from
    ELSE IndexFrom(s, p, from + 1)

\* String.prototype.includes
Includes(s, p) == IndexFrom(s, p, 1) # 0

\* String.prototype.replace(string, string): the first occurrence only
ReplaceFirst(s, old, new) ==
    LET i == IndexFrom(s, old, 1)
    IN  IF i = 0 THEN s
        ELSE SubSeq(s, 1, i - 1) \o new \o SubSeq(s, i + Len(old), Len(s))

\* s.split(old).join(new): every occurrence, left to right, not overlapping
RECURSIVE ReplaceAll(_, _, _)
ReplaceAll(s, old, new) ==
    LET i == IF Len(old) = 0 THEN 0 ELSE IndexFrom(s, old, 1)
    IN  IF i = 0 THEN s
        ELSE SubSeq(s, 1, i - 1) \o new
               \o ReplaceAll(SubSeq(s, i + Len(old), Len(s)), old, new)

\* the elements of a sequence
Range(s) == {s[i] : i \in 1..Len(s)}

\* Array.from(new Set(list)): first occurrences, in order
RECURSIVE Dedup(_)
Dedup(s) ==
    IF s = <<>> THEN <<>>
    ELSE LET r == Dedup(SubSeq(s, 1, Len(s) - 1))
         IN  IF s[Len(s)] \in Range(r) THEN r ELSE Append(r, s[Len(s)])

\* for (const x of list) acc = Op(acc, x); the accumulator of each round is
\* evaluated (acc = acc) before the next round starts
FoldLeft(Op(_, _), base, s) ==
    LET f[i \in 0..Len(s)] ==
            IF i = 0 THEN base
            ELSE LET acc == f[i - 1]
                 IN  IF acc = acc THEN Op(acc, s[i]) ELSE base
    IN  f[Len(s)]

(***************************************************************************)
(* Lexemes.                                                                *)
(***************************************************************************)
Punct == {"'", "[", "]", "(", ")", ",", "=", ".", "+"}

\* names that contain a blank: they are written quoted and are not \w+
SpacedNames == {"Net Sales"}

\* the lexemes the regular expressions' \w+ matches
IsWord(t) == t \notin Punct /\ t \notin SpacedNames

\* the property keywords that end a measure's expression
MeasurePropertyKeywords ==
    {"lineageTag:", "formatString:", "displayFolder:", "dataCategory:", "description:"}

\* the table functions extractTableReferences looks for
TableFunctionsParsed ==
    {"COUNTROWS", "RELATEDTABLE", "VALUES", "ALL", "DISTINCT", "SUMMARIZE",
     "ADDCOLUMNS", "FILTER", "CALCULATETABLE"}

(***************************************************************************)
(* DAXParser.                                                              *)
(***************************************************************************)
\* [x]: every bracketed identifier, whatever precedes it
RECURSIVE MeasureRefsFrom(_, _)
MeasureRefsFrom(dax, i) ==
    IF i + 2 > Len(dax) THEN <<>>
    ELSE IF dax[i] = "[" /\ dax[i + 1] \notin {"[", "]"} /\ dax[i + 2] = "]"
         THEN <<dax[i + 1]>> \o MeasureRefsFrom(dax, i + 3)
         ELSE MeasureRefsFrom(dax, i + 1)

\* an array in place of the Set: one entry per occurrence
extractMeasureReferencesAll(dax) == MeasureRefsFrom(dax, 1)

extractMeasureReferences(dax) == Dedup(MeasureRefsFrom(dax, 1))

\* Table[x] and 'Table'[x], one entry per occurrence
RECURSIVE ColumnRefsFrom(_, _)
ColumnRefsFrom(dax, i) ==
    IF i > Len(dax) THEN <<>>
    ELSE IF /\ i + 5 <= Len(dax)
            /\ dax[i] = "'" /\ dax[i + 1] # "'" /\ dax[i + 2] = "'"
            /\ dax[i + 3] = "[" /\ dax[i + 4] \notin {"[", "]"} /\ dax[i + 5] = "]"
         THEN <<[table |-> dax[i + 1], column |-> dax[i + 4]]>>
                \o ColumnRefsFrom(dax, i + 6)
    ELSE IF /\ i + 3 <= Len(dax)
            /\ IsWord(dax[i])
            /\ dax[i + 1] = "[" /\ dax[i + 2] \notin {"[", "]"} /\ dax[i + 3] = "]"
         THEN <<[table |-> dax[i], column |-> dax[i + 2]]>>
                \o ColumnRefsFrom(dax, i + 4)
    ELSE ColumnRefsFrom(dax, i + 1)

extractColumnReferences(dax) == ColumnRefsFrom(dax, 1)

\* FUNCTION(Table , or FUNCTION('Table' )
RECURSIVE TableRefsFrom(_, _)
TableRefsFrom(dax, i) ==
    IF i + 3 > Len(dax) THEN <<>>
    ELSE IF dax[i] \in TableFunctionsParsed /\ dax[i + 1] = "("
         THEN IF /\ i + 5 <= Len(dax)
                 /\ dax[i + 2] = "'" /\ dax[i + 3] # "'" /\ dax[i + 4] = "'"
                 /\ dax[i + 5] \in {",", ")"}
              THEN <<dax[i + 3]>> \o TableRefsFrom(dax, i + 6)
              ELSE IF IsWord(dax[i + 2]) /\ dax[i + 3] \in {",", ")"}
                   THEN <<dax[i + 2]>> \o TableRefsFrom(dax, i + 4)
                   ELSE TableRefsFrom(dax, i + 1)
         ELSE TableRefsFrom(dax, i + 1)

extractTableReferences(dax) == Dedup(TableRefsFrom(dax, 1))

extractReferences(dax) ==
    [measureRefs |-> extractMeasureReferences(dax),
     columnRefs  |-> extractColumnReferences(dax),
     tableRefs   |-> extractTableReferences(dax)]

(***************************************************************************)
(* TMDLParser and JSONParser.                                              *)
(***************************************************************************)
\* (?:'([^']+)'|(\w+)) at position i: the name and the position after it
NameAt(s, i) ==
    IF i + 2 <= Len(s) /\ s[i] = "'" /\ s[i + 1] # "'" /\ s[i + 2] = "'"
    THEN [ok |-> TRUE, name |-> s[i + 1], next |-> i + 3]
    ELSE IF i <= Len(s) /\ IsWord(s[i])
         THEN [ok |-> TRUE, name |-> s[i], next |-> i + 1]
         ELSE [ok |-> FALSE, name |-> "", next |-> i]

\* the declarations "keyword Name" (followed by "=" when withEq) from i onwards
RECURSIVE DeclsFrom(_, _, _, _)
DeclsFrom(s, keyword, withEq, i) ==
    IF i > Len(s) THEN <<>>
    ELSE LET n == NameAt(s, i + 1)
             hit == /\ s[i] = keyword
                    /\ n.ok
                    /\ (withEq => (n.next <= Len(s) /\ s[n.next] = "="))
             endIndex == IF withEq THEN n.next + 1 ELSE n.next
         IN  IF hit
             THEN <<[name |-> n.name, startIndex |-> i, endIndex |-> endIndex]>>
                    \o DeclsFrom(s, keyword, withEq, endIndex)
             ELSE DeclsFrom(s, keyword, withEq, i + 1)

\* the text of declaration k: up to the next declaration or the end of the file
DeclBody(s, decls, k) ==
    SubSeq(s, decls[k].endIndex,
           IF k < Len(decls) THEN decls[k + 1].startIndex - 1 ELSE Len(s))

\* everything before the first property keyword
RECURSIVE DaxOf(_)
DaxOf(body) ==
    IF body = <<>> \/ Head(body) \in MeasurePropertyKeywords THEN <<>>
    ELSE <<Head(body)>> \o DaxOf(Tail(body))

parseMeasuresTMDL(tmdlContent) ==
    LET matches == DeclsFrom(tmdlContent, "measure", TRUE, 1)
    IN  [k \in 1..Len(matches) |->
            [name |-> matches[k].name,
             dax  |-> DaxOf(DeclBody(tmdlContent, matches, k))]]

parseTableTMDL(tmdlContent, fileName) ==
    LET tableDecl == DeclsFrom(tmdlContent, "table", FALSE, 1)
        columnMatches == DeclsFrom(tmdlContent, "column", FALSE, 1)
    IN  [tableName |-> IF tableDecl # <<>> THEN tableDecl[1].name ELSE fileName,
         columns   |-> [k \in 1..Len(columnMatches) |-> columnMatches[k].name],
         isCalculationGroup |-> FALSE,
         calculationItems   |-> <<>>,
         isFieldParameter   |-> FALSE,
         fieldParameterRefs |-> <<>>]

\* "fromColumn: Table.Column": (.+?)\.(.+?) keeps the quotes of a quoted table
QualifiedAfter(body, keyword) ==
    LET i == IndexFrom(body, <<keyword>>, 1)
    IN  IF i # 0 /\ i + 3 <= Len(body) /\ body[i + 2] = "."
        THEN [table |-> body[i + 1], column |-> body[i + 3]]
        ELSE IF /\ i # 0 /\ i + 5 <= Len(body)
                /\ body[i + 1] = "'" /\ body[i + 3] = "'" /\ body[i + 4] = "."
             THEN [table |-> "'" \o body[i + 2] \o "'", column |-> body[i + 5]]
             ELSE [table |-> "", column |-> ""]

\* relationship <id>: [^\s\n]+ takes any lexeme as the name
RECURSIVE RelationshipDeclsFrom(_, _)
RelationshipDeclsFrom(s, i) ==
    IF i + 1 > Len(s) THEN <<>>
    ELSE IF s[i] = "relationship"
         THEN <<[name |-> s[i + 1], startIndex |-> i, endIndex |-> i + 2]>>
                \o RelationshipDeclsFrom(s, i + 2)
         ELSE RelationshipDeclsFrom(s, i + 1)

parseRelationshipsTMDL(tmdlContent) ==
    LET matches == RelationshipDeclsFrom(tmdlContent, 1)
    IN  [k \in 1..Len(matches) |->
            LET body == DeclBody(tmdlContent, matches, k)
                from == QualifiedAfter(body, "fromColumn:")
                to   == QualifiedAfter(body, "toColumn:")
            IN  [name |-> matches[k].name,
                 fromTable |-> from.table, fromColumn |-> from.column,
                 toTable   |-> to.table,   toColumn   |-> to.column]]

\* the Column / Measure references of a visual.json, in order of appearance
RECURSIVE VisualFieldsFrom(_, _)
VisualFieldsFrom(s, i) ==
    IF i + 4 > Len(s) THEN <<>>
    ELSE IF /\ s[i] \in {"Column", "Measure"}
            /\ s[i + 1] = "Entity:" /\ s[i + 3] = "Property:"
         THEN <<[type     |-> IF s[i] = "Column" THEN "column" ELSE "measure",
                 entity   |-> s[i + 2],
                 property |-> s[i + 4],
                 location |-> "queryState"]>> \o VisualFieldsFrom(s, i + 5)
         ELSE VisualFieldsFrom(s, i + 1)

\* addFieldToMap keeps one entry for each type|entity|property
extractFieldReferences(visualData) == Dedup(VisualFieldsFrom(visualData, 1))

(***************************************************************************)
(* DependencyAnalyzer: the graph.                                          *)
(* A graph value is [nodes, edges, orphanedReferences]; nodes is a         *)
(* function from node id to node, as the object dependencyGraph.nodes.     *)
(***************************************************************************)
NoNodes == [id \in {} |-> 0]

EmptyGraph == [nodes |-> NoNodes, edges |-> <<>>, orphanedReferences |-> <<>>]

HasNode(g, id) == id \in DOMAIN g.nodes

\* nodes[id] = node: a second assignment to the same id replaces the first
PutNode(g, id, node) == [g EXCEPT !.nodes = (id :> node) @@ @]

NewNode(type, name, table) ==
    [type |-> type, name |-> name, table |-> table,
     dependencies |-> <<>>, usedBy |-> <<>>]

MeasureId(name) == "Measure." \o name
ColumnId(table, column) == table \o "." \o column
TableId(name) == "Table." \o name
VisualId(pageId, visualId) == pageId \o "/" \o visualId
CalcGroupId(table) == "CalcGroup." \o table
CalcItemId(table, item) == "CalcItem." \o table \o "." \o item
FieldParamId(table) == "FieldParam." \o table

Dep(type, ref) == [type |-> type, ref |-> ref]

Usage(type, ref, name, pageId, visualId) ==
    [type |-> type, ref |-> ref, name |-> name, pageId |-> pageId, visualId |-> visualId]

\* the three pushes of one edge: source.dependencies, target.usedBy, edges
LinkMutant(g, from, to, dep, usage, edgeType) ==
    [g EXCEPT !.nodes[from].dependencies = Append(@, dep),
              !.edges = Append(@, [from |-> from, to |-> to, type |-> edgeType])]

Link(g, from, to, dep, usage, edgeType) ==
    LET g1 == [g EXCEPT !.nodes[from].dependencies = Append(@, dep)]
        g2 == [g1 EXCEPT !.nodes[to].usedBy = Append(@, usage)]
    IN  [g2 EXCEPT !.edges = Append(@, [from |-> from, to |-> to, type |-> edgeType])]

Orphan(g, rec) == [g EXCEPT !.orphanedReferences = Append(@, rec)]

addMeasureNodes(g, measures) ==
    FoldLeft(LAMBDA acc, m : PutNode(acc, MeasureId(m.name), NewNode("measure", m.name, "")),
             g, measures)

addColumnNodes(g, tables) ==
    FoldLeft(LAMBDA acc, t :
                FoldLeft(LAMBDA a2, c :
                            PutNode(a2, ColumnId(t.tableName, c),
                                    NewNode("column", c, t.tableName)),
                         acc, t.columns),
             g, tables)

addTableNodes(g, tables) ==
    FoldLeft(LAMBDA acc, t :
                PutNode(acc, TableId(t.tableName), NewNode("table", t.tableName, t.tableName)),
             g, tables)

addVisualNodes(g, visuals) ==
    FoldLeft(LAMBDA acc, v :
                PutNode(acc, VisualId(v.pageId, v.visualId),
                        NewNode("visual", v.visualId, v.pageId)),
             g, visuals)

\* a calculation item: its node, the link to its group, then its expression
AddCalculationItem(g, table, item) ==
    LET groupNodeId == CalcGroupId(table.tableName)
        itemNodeId  == CalcItemId(table.tableName, item.name)
        g1 == PutNode(g, itemNodeId, NewNode("calculationItem", item.name, table.tableName))
        g2 == Link(g1, itemNodeId, groupNodeId,
                   Dep("calculationGroup", groupNodeId),
                   Usage("calculationItem", itemNodeId, item.name, "", ""),
                   "calcItem-to-calcGroup")
        refs == extractReferences(item.dax)
        g3 == FoldLeft(LAMBDA acc, colRef :
                          LET colNodeId == ColumnId(colRef.table, colRef.column)
                          IN  IF HasNode(acc, colNodeId)
                              THEN Link(acc, itemNodeId, colNodeId,
                                        Dep("column", colNodeId),
                                        Usage("calculationItem", itemNodeId,
                                              table.tableName \o ": " \o item.name, "", ""),
                                        "calcItem-to-column")
                              ELSE acc,
                       g2, refs.columnRefs)
    IN  IF item.dax = <<>> THEN g2
        ELSE FoldLeft(LAMBDA acc, tableName :
                         LET tableNodeId == TableId(tableName)
                         IN  IF HasNode(acc, tableNodeId)
                             THEN Link(acc, itemNodeId, tableNodeId,
                                       Dep("table", tableNodeId),
                                       Usage("calculationItem", itemNodeId,
                                             table.tableName \o ": " \o item.name, "", ""),
                                       "calcItem-to-table")
                             ELSE acc,
                      g3, refs.tableRefs)

addCalculationGroupNodes(g, tables) ==
    FoldLeft(LAMBDA acc, t :
                IF ~t.isCalculationGroup THEN acc
                ELSE FoldLeft(LAMBDA a2, item : AddCalculationItem(a2, t, item),
                              PutNode(acc, CalcGroupId(t.tableName),
                                      NewNode("calculationGroup", t.tableName, t.tableName)),
                              t.calculationItems),
             g, tables)

addFieldParameterNodes(g, tables) ==
    FoldLeft(LAMBDA acc, t :
                IF ~t.isFieldParameter THEN acc
                ELSE PutNode(acc, FieldParamId(t.tableName),
                             NewNode("fieldParameter", t.tableName, t.tableName)),
             g, tables)

\* the edges of one measure: measure, then column, then table references
MeasureDependenciesOf(g, measure) ==
    LET measureNodeId == MeasureId(measure.name)
        references == extractReferences(measure.dax)
        use == Usage("measure", measureNodeId, measure.name, "", "")
        g1 == FoldLeft(LAMBDA acc, refName :
                          LET refNodeId == MeasureId(refName)
                          IN  IF HasNode(acc, refNodeId)
                              THEN Link(acc, measureNodeId, refNodeId,
                                        Dep("measure", refNodeId), use, "measure-to-measure")
                              ELSE Orphan(acc, [type |-> "measure", referencedName |-> refName,
                                                inMeasure |-> measure.name,
                                                nodeId |-> measureNodeId]),
                       g, references.measureRefs)
        g2 == FoldLeft(LAMBDA acc, colRef :
                          LET colNodeId == ColumnId(colRef.table, colRef.column)
                          IN  IF HasNode(acc, colNodeId)
                              THEN Link(acc, measureNodeId, colNodeId,
                                        Dep("column", colNodeId), use, "measure-to-column")
                              ELSE Orphan(acc, [type |-> "column",
                                                referencedName |->
                                                    ColumnId(colRef.table, colRef.column),
                                                inMeasure |-> measure.name,
                                                nodeId |-> measureNodeId]),
                       g1, references.columnRefs)
    IN  FoldLeft(LAMBDA acc, tableName :
                    LET tableNodeId == TableId(tableName)
                        deps == acc.nodes[measureNodeId].dependencies
                        hasColumnRef ==
                            \E k \in 1..Len(deps) :
                                /\ deps[k].type = "column"
                                /\ acc.nodes[deps[k].ref].type = "column"
                                /\ acc.nodes[deps[k].ref].table = tableName
                    IN  IF HasNode(acc, tableNodeId) /\ ~hasColumnRef
                        THEN Link(acc, measureNodeId, tableNodeId,
                                  Dep("table", tableNodeId), use, "measure-to-table")
                        ELSE acc,
                 g2, references.tableRefs)

buildMeasureDependencies(g, measures) ==
    FoldLeft(LAMBDA acc, m :
                IF HasNode(acc, MeasureId(m.name)) THEN MeasureDependenciesOf(acc, m) ELSE acc,
             [g EXCEPT !.orphanedReferences = <<>>], measures)

\* one field of a visual: parameter table first, then calculation group, then column
VisualFieldDependency(g, visual, field) ==
    LET visualNodeId == VisualId(visual.pageId, visual.visualId)
        use == Usage("visual", visualNodeId, "", visual.pageId, visual.visualId)
        measureNodeId == MeasureId(field.property)
        paramNodeId == FieldParamId(field.entity)
        calcGroupNodeId == CalcGroupId(field.entity)
        colNodeId == ColumnId(field.entity, field.property)
        toParam == Link(g, visualNodeId, paramNodeId,
                        Dep("fieldParameter", paramNodeId), use, "visual-to-fieldParameter")
    IN  IF field.type = "measure"
        THEN IF HasNode(g, measureNodeId)
             THEN Link(g, visualNodeId, measureNodeId,
                       Dep("measure", measureNodeId), use, "visual-to-measure")
             ELSE g
        ELSE IF field.type = "column"
        THEN IF field.location = "fieldParameter" /\ HasNode(g, paramNodeId) THEN toParam
             ELSE IF HasNode(g, calcGroupNodeId)
                  THEN Link(g, visualNodeId, calcGroupNodeId,
                            Dep("calculationGroup", calcGroupNodeId), use,
                            "visual-to-calculationGroup")
             ELSE IF HasNode(g, colNodeId)
                  THEN Link(g, visualNodeId, colNodeId,
                            Dep("column", colNodeId), use, "visual-to-column")
             ELSE IF HasNode(g, paramNodeId) THEN toParam
             ELSE g
        ELSE g

buildVisualDependencies(g, visuals) ==
    FoldLeft(LAMBDA acc, v :
                IF ~HasNode(acc, VisualId(v.pageId, v.visualId)) THEN acc
                ELSE FoldLeft(LAMBDA a2, f : VisualFieldDependency(a2, v, f), acc, v.fields),
             g, visuals)

FieldParameterRefDependency(g, table, ref) ==
    LET paramNodeId == FieldParamId(table.tableName)
        targetNodeId == IF ref.type = "measure" THEN MeasureId(ref.property)
                        ELSE ColumnId(ref.table, ref.property)
    IN  IF HasNode(g, targetNodeId)
        THEN Link(g, paramNodeId, targetNodeId, Dep(ref.type, targetNodeId),
                  Usage("fieldParameter", paramNodeId, table.tableName, "", ""),
                  "fieldParam-to-" \o ref.type)
        ELSE g

buildFieldParameterDependencies(g, tables) ==
    FoldLeft(LAMBDA acc, t :
                IF ~t.isFieldParameter \/ ~HasNode(acc, FieldParamId(t.tableName)) THEN acc
                ELSE FoldLeft(LAMBDA a2, ref : FieldParameterRefDependency(a2, t, ref),
                              acc, t.fieldParameterRefs),
             g, tables)

\* the graph is reset and rebuilt from the parsed data
buildDependencyGraph(data) ==
    LET g1 == addMeasureNodes(EmptyGraph, data.measures)
        g2 == addColumnNodes(g1, data.tables)
        g3 == addTableNodes(g2, data.tables)
        g4 == addVisualNodes(g3, data.visuals)
        g5 == addCalculationGroupNodes(g4, data.tables)
        g6 == addFieldParameterNodes(g5, data.tables)
        g7 == buildMeasureDependencies(g6, data.measures)
        g8 == buildVisualDependencies(g7, data.visuals)
    IN  buildFieldParameterDependencies(g8, data.tables)

findRelationshipsUsingColumn(relationships, tableName, columnName) ==
    SelectSeq(relationships,
              LAMBDA rel : \/ (rel.fromTable = tableName /\ rel.fromColumn = columnName)
                           \/ (rel.toTable = tableName /\ rel.toColumn = columnName))

(***************************************************************************)
(* DependencyAnalyzer: closures.                                           *)
(* A traversal state is [visited, allNodes]; allNodes lists, in order of   *)
(* discovery, [nodeId, type, depth].  maxDepth = -1 is "no bound".         *)
(***************************************************************************)
Unbounded == -1

NewTraversal == [visited |-> {}, allNodes |-> <<>>]

\* the ids a node's dependencies (up) or usedBy (down) entries refer to
Neighbours(g, nodeId, direction) ==
    LET list == IF direction = "up" THEN g.nodes[nodeId].dependencies
                ELSE g.nodes[nodeId].usedBy
    IN  [k \in 1..Len(list) |-> list[k].ref]

\* _traverseUpstream and _traverseDownstream: the same walk over the two lists
RECURSIVE Traverse(_, _, _, _, _, _)
Traverse(g, direction, nodeId, st, depth, maxDepth) ==
    IF nodeId \in st.visited THEN st
    ELSE LET st1 == [st EXCEPT !.visited = @ \cup {nodeId}]
         IN  IF maxDepth # Unbounded /\ depth > maxDepth THEN st1
             ELSE IF ~HasNode(g, nodeId) THEN st1
             ELSE LET st2 == IF depth > 0
                             THEN [st1 EXCEPT !.allNodes =
                                     Append(@, [nodeId |-> nodeId,
                                                type |-> g.nodes[nodeId].type,
                                                depth |-> depth])]
                             ELSE st1
                  IN  FoldLeft(LAMBDA acc, ref :
                                  Traverse(g, direction, ref, acc, depth + 1, maxDepth),
                               st2, Neighbours(g, nodeId, direction))

\* a walk that stops at the nodes the start depends on directly
_traverseUpstreamDirect(g, nodeId, st, depth, maxDepth) ==
    Traverse(g, "up", nodeId, st, depth, 1)

_traverseUpstream(g, nodeId, st, depth, maxDepth) ==
    Traverse(g, "up", nodeId, st, depth, maxDepth)

\* a walk that adds the node it starts from as well (depth >= 0 for depth > 0)
_traverseDownstreamFromZero(g, nodeId, st, depth, maxDepth) ==
    LET walk == Traverse(g, "down", nodeId, st, depth, maxDepth)
    IN  IF depth = 0 /\ HasNode(g, nodeId) /\ nodeId \notin st.visited
        THEN [walk EXCEPT !.allNodes =
                 <<[nodeId |-> nodeId, type |-> g.nodes[nodeId].type, depth |-> 0]>> \o @]
        ELSE walk

_traverseDownstream(g, nodeId, st, depth, maxDepth) ==
    Traverse(g, "down", nodeId, st, depth, maxDepth)

\* insertion of one entry into a list sorted by depth, after its equals
RECURSIVE InsertByDepth(_, _)
InsertByDepth(sorted, e) ==
    IF sorted = <<>> THEN <<e>>
    ELSE IF sorted[Len(sorted)].depth <= e.depth THEN Append(sorted, e)
    ELSE Append(InsertByDepth(SubSeq(sorted, 1, Len(sorted) - 1), e), sorted[Len(sorted)])

SortByDepth(list) == FoldLeft(InsertByDepth, <<>>, list)

OfType(allNodes, type) == SelectSeq(allNodes, LAMBDA n : n.type = type)

_groupByType(allNodes) ==
    [measures          |-> SortByDepth(OfType(allNodes, "measure")),
     columns           |-> SortByDepth(OfType(allNodes, "column")),
     tables            |-> SortByDepth(OfType(allNodes, "table")),
     visuals           |-> SortByDepth(OfType(allNodes, "visual")),
     calculationItems  |-> SortByDepth(OfType(allNodes, "calculationItem")),
     calculationGroups |-> SortByDepth(OfType(allNodes, "calculationGroup")),
     fieldParameters   |-> SortByDepth(OfType(allNodes, "fieldParameter"))]

findAllUpstream(g, nodeId, maxDepth) ==
    _groupByType(_traverseUpstream(g, nodeId, NewTraversal, 0, maxDepth).allNodes)

findAllDownstream(g, nodeId, maxDepth) ==
    _groupByType(_traverseDownstream(g, nodeId, NewTraversal, 0, maxDepth).allNodes)

\* the node ids a grouped result lists, over all groups
IdsOf(grouped) ==
    LET all == grouped.measures \o grouped.columns \o grouped.tables \o grouped.visuals
                 \o grouped.calculationItems \o grouped.calculationGroups
                 \o grouped.fieldParameters
    IN  {all[k].nodeId : k \in 1..Len(all)}

(***************************************************************************)
(* DependencyAnalyzer: cycles and delete analysis.                         *)
(***************************************************************************)
MAX_DEPTH == 1000

\* path.indexOf(x): the first position of x in path, 0 when there is none
IndexOf(path, x) ==
    IF x \in Range(path) THEN CHOOSE i \in 1..Len(path) :
                                  path[i] = x /\ \A j \in 1..(i - 1) : path[j] # x
    ELSE 0

\* a walk that marks the node and looks no further
dfsMarkOnly(g, nodeId, path, st) == [st EXCEPT !.visited = @ \cup {nodeId}]

\* the closure dfs of detectCircularDependencies; st is [circular, visited,
\* recursionStack], path is passed by value
RECURSIVE dfs(_, _, _, _)
dfs(g, nodeId, path, st) ==
    IF Len(path) >= MAX_DEPTH THEN st
    ELSE IF nodeId \in st.recursionStack
         THEN [st EXCEPT !.circular =
                  Append(@, SubSeq(path, IndexOf(path, nodeId), Len(path)) \o <<nodeId>>)]
    ELSE IF nodeId \in st.visited THEN st
    ELSE LET st1 == [st EXCEPT !.visited = @ \cup {nodeId},
                               !.recursionStack = @ \cup {nodeId}]
             path1 == Append(path, nodeId)
             st2 == IF HasNode(g, nodeId)
                    THEN FoldLeft(LAMBDA acc, dep : dfs(g, dep.ref, path1, acc),
                                  st1, g.nodes[nodeId].dependencies)
                    ELSE st1
         IN  [st2 EXCEPT !.recursionStack = @ \ {nodeId}]

\* the measure nodes in the order of the keys of dependencyGraph.nodes, which
\* is the order addMeasureNodes inserted them in
MeasureNodeIds(g, data) ==
    SelectSeq(Dedup([k \in 1..Len(data.measures) |-> MeasureId(data.measures[k].name)]),
              LAMBDA id : HasNode(g, id) /\ g.nodes[id].type = "measure")

detectCircularDependencies(g, data) ==
    FoldLeft(LAMBDA acc, nodeId : dfs(g, nodeId, <<>>, acc),
             [circular |-> <<>>, visited |-> {}, recursionStack |-> {}],
             MeasureNodeIds(g, data)).circular

\* the node ids of the entries of a list that are, or are not, at depth 1
IdsAtDepthOne(list) == {list[k].nodeId : k \in {i \in 1..Len(list) : list[i].depth = 1}}
IdsBelowDepthOne(list) == {list[k].nodeId : k \in {i \in 1..Len(list) : list[i].depth # 1}}

\* the level of analyzeDelete's risk scoring
RiskLevel(totalDownstream, hasRelationshipBreaks) ==
    IF totalDownstream = 0 /\ ~hasRelationshipBreaks THEN "safe"
    ELSE IF totalDownstream <= 5 /\ ~hasRelationshipBreaks THEN "caution"
    ELSE "dangerous"

\* analyzeDelete of an existing node; the breaks are kept as sets of node ids
analyzeDelete(g, data, nodeId) ==
    LET node == g.nodes[nodeId]
        downstream == findAllDownstream(g, nodeId, Unbounded)
        relationships ==
            IF node.type = "column"
            THEN findRelationshipsUsingColumn(data.relationships, node.table, node.name)
            ELSE <<>>
        totalDownstream == Len(downstream.measures) + Len(downstream.visuals)
    IN  [targetNode    |-> nodeId,
         riskLevel     |-> RiskLevel(totalDownstream, relationships # <<>>),
         directBreaks  |-> IdsAtDepthOne(downstream.measures)
                              \cup IdsAtDepthOne(downstream.visuals),
         cascadeBreaks |-> IdsBelowDepthOne(downstream.measures)
                              \cup IdsBelowDepthOne(downstream.visuals),
         relationships |-> relationships,
         totalBreaks   |-> totalDownstream + Len(relationships)]

(***************************************************************************)
(* RefactoringEngine: planning a rename (the ChangeSet is previewChanges). *)
(***************************************************************************)
\* the upper-case form of a lexeme, as the i flag of a regular expression
\* compares them
Upper(t) ==
    CASE t = "a" -> "A"
      [] t = "measure" -> "MEASURE"
      [] t = "table" -> "TABLE"
      [] t = "column" -> "COLUMN"
      [] t = "all" -> "ALL"
      [] OTHER -> t

\* the words of the model that have letters, in their spellings: all capitals,
\* all small, and the mixed spellings that occur
LetterCase ==
    {[upper |-> "TRUE", lower |-> "true", mixed |-> {"True"}],
     [upper |-> "FALSE", lower |-> "false", mixed |-> {"False"}],
     [upper |-> "AND", lower |-> "and", mixed |-> {"And"}],
     [upper |-> "OR", lower |-> "or", mixed |-> {"Or"}],
     [upper |-> "NOT", lower |-> "not", mixed |-> {"Not"}],
     [upper |-> "IN", lower |-> "in", mixed |-> {"In"}],
     [upper |-> "VAR", lower |-> "var", mixed |-> {"Var"}],
     [upper |-> "RETURN", lower |-> "return", mixed |-> {"Return"}],
     [upper |-> "DEFINE", lower |-> "define", mixed |-> {"Define"}],
     [upper |-> "MEASURE", lower |-> "measure", mixed |-> {"Measure"}],
     [upper |-> "EVALUATE", lower |-> "evaluate", mixed |-> {"Evaluate"}],
     [upper |-> "ORDER", lower |-> "order", mixed |-> {"Order"}],
     [upper |-> "BY", lower |-> "by", mixed |-> {"By"}],
     [upper |-> "ASC", lower |-> "asc", mixed |-> {"Asc"}],
     [upper |-> "DESC", lower |-> "desc", mixed |-> {"Desc"}],
     [upper |-> "CALCULATE", lower |-> "calculate", mixed |-> {"Calculate"}],
     [upper |-> "FILTER", lower |-> "filter", mixed |-> {"Filter"}],
     [upper |-> "ALL", lower |-> "all", mixed |-> {"All"}],
     [upper |-> "VALUES", lower |-> "values", mixed |-> {"Values"}],
     [upper |-> "DISTINCT", lower |-> "distinct", mixed |-> {"Distinct"}],
     [upper |-> "RELATED", lower |-> "related", mixed |-> {"Related"}],
     [upper |-> "SUM", lower |-> "sum", mixed |-> {"Sum"}],
     [upper |-> "AVERAGE", lower |-> "average", mixed |-> {"Average"}],
     [upper |-> "COUNT", lower |-> "count", mixed |-> {"Count"}],
     [upper |-> "MIN", lower |-> "min", mixed |-> {"Min"}],
     [upper |-> "MAX", lower |-> "max", mixed |-> {"Max"}],
     [upper |-> "IF", lower |-> "if", mixed |-> {"If"}],
     [upper |-> "SWITCH", lower |-> "switch", mixed |-> {"Switch"}],
     [upper |-> "BLANK", lower |-> "blank", mixed |-> {"Blank"}],
     [upper |-> "TABLE", lower |-> "table", mixed |-> {"Table"}],
     [upper |-> "COLUMN", lower |-> "column", mixed |-> {"Column"}],
     [upper |-> "ROW", lower |-> "row", mixed |-> {"Row"}],
     [upper |-> "SUMMARIZE", lower |-> "summarize", mixed |-> {"Summarize"}],
     [upper |-> "ADDCOLUMNS", lower |-> "addcolumns", mixed |-> {"Addcolumns"}],
     [upper |-> "SELECTCOLUMNS", lower |-> "selectcolumns", mixed |-> {"Selectcolumns"}],
     [upper |-> "RELATIONSHIP", lower |-> "relationship", mixed |-> {"Relationship"}],
     [upper |-> "PARTITION", lower |-> "partition", mixed |-> {"Partition"}],
     [upper |-> "EXPRESSION", lower |-> "expression", mixed |-> {"Expression"}],
     [upper |-> "FORMATSTRING", lower |-> "formatstring", mixed |-> {"FormatString", "Formatstring", "formatString"}],
     [upper |-> "ISHIDDEN", lower |-> "ishidden", mixed |-> {"IsHidden", "Ishidden", "isHidden"}],
     [upper |-> "DATATYPE", lower |-> "datatype", mixed |-> {"DataType", "Datatype", "dataType"}],
     [upper |-> "SOURCECOLUMN", lower |-> "sourcecolumn", mixed |-> {"SourceColumn", "Sourcecolumn", "sourceColumn"}],
     [upper |-> "A", lower |-> "a", mixed |-> {}],
     [upper |-> "Z", lower |-> "z", mixed |-> {}],
     [upper |-> "U", lower |-> "u", mixed |-> {}],
     [upper |-> "GONE", lower |-> "gone", mixed |-> {"Gone"}]}

Spellings(w) == {w.upper, w.lower} \cup w.mixed

\* String.prototype.toUpperCase and toLowerCase
toUpperCase(t) ==
    IF \E w \in LetterCase : t \in Spellings(w)
    THEN (CHOOSE w \in LetterCase : t \in Spellings(w)).upper
    ELSE t

toLowerCase(t) ==
    IF \E w \in LetterCase : t \in Spellings(w)
    THEN (CHOOSE w \in LetterCase : t \in Spellings(w)).lower
    ELSE t

\* a regular expression with the i flag, on lexemes
MatchAtCI(s, p, i) ==
    /\ i >= 1
    /\ i + Len(p) - 1 <= Len(s)
    /\ \A k \in 1..Len(p) : Upper(s[i + k - 1]) = Upper(p[k])

\* replace(/p/gi, new) where quoteGuard forbids a "'" right before the match
RECURSIVE ReplaceAllCIFrom(_, _, _, _, _)
ReplaceAllCIFrom(s, old, new, quoteGuard, i) ==
    IF i + Len(old) - 1 > Len(s) THEN SubSeq(s, i, Len(s))
    ELSE IF MatchAtCI(s, old, i) /\ ~(quoteGuard /\ i > 1 /\ s[i - 1] = "'")
         THEN new \o ReplaceAllCIFrom(s, old, new, quoteGuard, i + Len(old))
         ELSE <<s[i]>> \o ReplaceAllCIFrom(s, old, new, quoteGuard, i + 1)

ReplaceAllCI(s, old, new) == ReplaceAllCIFrom(s, old, new, FALSE, 1)

MeasureFile == "definition/tables/Measure.tmdl"
RelationshipsFile == "definition/relationships.tmdl"
TableFileName(tableName) == tableName \o ".tmdl"
TableFile(tableName) == "definition/tables/" \o TableFileName(tableName)
VisualFile(pageId, visualId) ==
    "definition/pages/" \o pageId \o "/visuals/" \o visualId \o "/visual.json"

Change(file, type, about, oldContent, newContent) ==
    [file |-> file, type |-> type, about |-> about,
     oldContent |-> oldContent, newContent |-> newContent,
     fullOldContent |-> <<>>, fullNewContent |-> <<>>,
     oldFileName |-> "", newFileName |-> ""]

DaxChange(type, measureName, oldDAX, newDAX) ==
    [Change(MeasureFile, type, measureName, oldDAX, newDAX)
        EXCEPT !.fullOldContent = oldDAX, !.fullNewContent = newDAX]

\* measures.find(m => m.name === name): the first one, <<>> when there is none
FindMeasure(measures, name) == SelectSeq(measures, LAMBDA m : m.name = name)

replaceMeasureInDAX(dax, oldName, newName) ==
    ReplaceAllCI(dax, <<"[", oldName, "]">>, <<"[", newName, "]">>)

\* the three patterns, one after the other: Table[c], 'Table'[c], (['"]?)Table\1[c]
replaceColumnInDAX(dax, tableName, oldColumnName, newColumnName) ==
    LET r1 == ReplaceAllCI(dax, <<tableName, "[", oldColumnName, "]">>,
                                <<tableName, "[", newColumnName, "]">>)
        r2 == ReplaceAllCI(r1, <<"'", tableName, "'", "[", oldColumnName, "]">>,
                               <<"'", tableName, "'", "[", newColumnName, "]">>)
    IN  ReplaceAllCI(r2, <<tableName, "[", oldColumnName, "]">>,
                         <<tableName, "[", newColumnName, "]">>)

\* the table functions replaceTableNameInDAX rewrites the argument of
TableFunctionsRenamed ==
    {"COUNTROWS", "RELATEDTABLE", "VALUES", "ALL", "DISTINCT", "SUMMARIZE", "ADDCOLUMNS",
     "SELECTCOLUMNS", "FILTER", "CALCULATETABLE", "TOPN", "SAMPLE", "GENERATE",
     "GENERATEALL", "NATURALLEFTOUTERJOIN", "NATURALINNERJOIN", "CROSSJOIN", "UNION",
     "INTERSECT", "EXCEPT", "DATATABLE", "TREATAS"}

\* patterns 3 and 4: FUNCTION(Table , and FUNCTION('Table' ,
RECURSIVE ReplaceTableArgFrom(_, _, _, _, _)
ReplaceTableArgFrom(s, oldArg, newArg, quoted, i) ==
    IF i > Len(s) THEN <<>>
    ELSE IF /\ i + 2 + Len(oldArg) <= Len(s)
            /\ Upper(s[i]) \in TableFunctionsRenamed
            /\ s[i + 1] = "("
            /\ MatchAtCI(s, oldArg, i + 2)
            /\ s[i + 2 + Len(oldArg)] \in {",", ")"}
         THEN <<s[i], s[i + 1]>> \o newArg
                \o ReplaceTableArgFrom(s, oldArg, newArg, quoted, i + 2 + Len(oldArg))
         ELSE <<s[i]>> \o ReplaceTableArgFrom(s, oldArg, newArg, quoted, i + 1)

replaceTableNameInDAX(dax, oldTableName, newTableName) ==
    LET needsQuotes == newTableName \in SpacedNames
        bare   == IF needsQuotes THEN <<"'", newTableName, "'">> ELSE <<newTableName>>
        quoted == <<"'", newTableName, "'">>
        r1 == ReplaceAllCIFrom(dax, <<oldTableName, "[">>, bare \o <<"[">>, TRUE, 1)
        r2 == ReplaceAllCI(r1, <<"'", oldTableName, "'", "[">>, quoted \o <<"[">>)
        r3 == ReplaceTableArgFrom(r2, <<oldTableName>>, bare, FALSE, 1)
    IN  ReplaceTableArgFrom(r3, <<"'", oldTableName, "'">>, quoted, TRUE, 1)

\* the usedBy entries of one type, in order
UsagesOfType(node, type) == SelectSeq(node.usedBy, LAMBDA u : u.type = type)

addMeasureDefinitionChange(measures, oldName, newName) ==
    IF FindMeasure(measures, oldName) = <<>> THEN <<>>
    ELSE <<Change(MeasureFile, "measure-definition", oldName,
                  <<"measure", "'", oldName, "'", "=">>,
                  <<"measure", "'", newName, "'", "=">>)>>

addMeasureDAXReferenceChange(measures, oldName, newName, affectedMeasureName) ==
    LET found == FindMeasure(measures, affectedMeasureName)
        oldDAX == found[1].dax
        newDAX == replaceMeasureInDAX(oldDAX, oldName, newName)
    IN  IF found = <<>> \/ oldDAX = newDAX THEN <<>>
        ELSE <<DaxChange("measure-dax-reference", affectedMeasureName, oldDAX, newDAX)>>

addColumnDAXReferenceChange(measures, oldName, newName, tableName, affectedMeasureName) ==
    LET found == FindMeasure(measures, affectedMeasureName)
        oldDAX == found[1].dax
        newDAX == replaceColumnInDAX(oldDAX, tableName, oldName, newName)
    IN  IF found = <<>> \/ oldDAX = newDAX THEN <<>>
        ELSE <<DaxChange("column-dax-reference", affectedMeasureName, oldDAX, newDAX)>>

addVisualMeasureReferenceChange(oldName, newName, pageId, visualId) ==
    <<Change(VisualFile(pageId, visualId), "visual-measure-reference",
             VisualId(pageId, visualId),
             <<"Property:", oldName>>, <<"Property:", newName>>)>>

addVisualColumnReferenceChange(oldName, newName, tableName, pageId, visualId) ==
    <<Change(VisualFile(pageId, visualId), "visual-column-reference",
             VisualId(pageId, visualId),
             <<"Property:", oldName>>, <<"Property:", newName>>)>>

addColumnDefinitionChange(oldName, newName, tableName) ==
    <<Change(TableFile(tableName), "column-definition", ColumnId(tableName, oldName),
             <<"column", "'", oldName, "'">>, <<"column", "'", newName, "'">>)>>

addFieldParameterNameofChange(oldName, newName, refType, tableName, paramTableName) ==
    <<Change(TableFile(paramTableName), "field-parameter-nameof", paramTableName,
             IF refType = "measure" THEN <<"[", oldName, "]">>
             ELSE <<"'", tableName, "'", "[", oldName, "]">>,
             IF refType = "measure" THEN <<"[", newName, "]">>
             ELSE <<"'", tableName, "'", "[", newName, "]">>)>>

addRelationshipChange(oldColumnName, newColumnName, tableName, relationship) ==
    <<Change(RelationshipsFile, "relationship-reference", relationship.name,
             <<tableName, ".", oldColumnName>>, <<tableName, ".", newColumnName>>)>>

\* the changes of every usedBy entry of one type, Make giving those of one entry
ChangesFor(node, type, Make(_)) ==
    FoldLeft(LAMBDA acc, usage : acc \o Make(usage), <<>>, UsagesOfType(node, type))

\* a result is [ok, changes]: ok = FALSE stands for the exception thrown
Planned(changes) == [ok |-> TRUE, changes |-> changes]
Rejected == [ok |-> FALSE, changes |-> <<>>]

previewMeasureRename(g, data, oldName, newName) ==
    LET nodeId == MeasureId(oldName)
        node == g.nodes[nodeId]
    IN  IF ~HasNode(g, nodeId) THEN Rejected
        ELSE Planned(
               addMeasureDefinitionChange(data.measures, oldName, newName)
               \o ChangesFor(node, "measure", LAMBDA u :
                     addMeasureDAXReferenceChange(data.measures, oldName, newName, u.name))
               \o ChangesFor(node, "visual", LAMBDA u :
                     addVisualMeasureReferenceChange(oldName, newName, u.pageId, u.visualId))
               \o ChangesFor(node, "fieldParameter", LAMBDA u :
                     IF HasNode(g, u.ref)
                     THEN addFieldParameterNameofChange(oldName, newName, "measure", "",
                                                        g.nodes[u.ref].table)
                     ELSE <<>>))

previewColumnRename(g, data, oldName, newName, tableName) ==
    LET nodeId == ColumnId(tableName, oldName)
        node == g.nodes[nodeId]
    IN  IF ~HasNode(g, nodeId) THEN Rejected
        ELSE Planned(
               addColumnDefinitionChange(oldName, newName, tableName)
               \o ChangesFor(node, "measure", LAMBDA u :
                     addColumnDAXReferenceChange(data.measures, oldName, newName,
                                                 tableName, u.name))
               \o ChangesFor(node, "visual", LAMBDA u :
                     addVisualColumnReferenceChange(oldName, newName, tableName,
                                                    u.pageId, u.visualId))
               \o FoldLeft(LAMBDA acc, rel :
                              acc \o addRelationshipChange(oldName, newName, tableName, rel),
                           <<>>,
                           findRelationshipsUsingColumn(data.relationships, tableName, oldName))
               \o ChangesFor(node, "fieldParameter", LAMBDA u :
                     IF HasNode(g, u.ref)
                     THEN addFieldParameterNameofChange(oldName, newName, "column", tableName,
                                                        g.nodes[u.ref].table)
                     ELSE <<>>))

previewTableRename(g, data, oldTableName, newTableName) ==
    LET fileRename ==
            [Change(TableFile(oldTableName), "file-rename", oldTableName,
                    <<"table", "'", oldTableName, "'">>, <<"table", "'", newTableName, "'">>)
                EXCEPT !.oldFileName = TableFileName(oldTableName),
                       !.newFileName = TableFileName(newTableName)]
        measureChanges ==
            FoldLeft(LAMBDA acc, m :
                        LET newDAX == replaceTableNameInDAX(m.dax, oldTableName, newTableName)
                        IN  IF m.dax = newDAX THEN acc
                            ELSE Append(acc, DaxChange("table-dax-reference", m.name,
                                                       m.dax, newDAX)),
                     <<>>, data.measures)
        visualChanges ==
            FoldLeft(LAMBDA acc, v :
                        IF /\ HasNode(g, VisualId(v.pageId, v.visualId))
                           /\ \E k \in 1..Len(v.fields) :
                                 /\ v.fields[k].type \in {"column", "measure"}
                                 /\ v.fields[k].entity = oldTableName
                        THEN Append(acc, Change(VisualFile(v.pageId, v.visualId),
                                                "visual-entity-reference",
                                                VisualId(v.pageId, v.visualId),
                                                <<"Entity:", oldTableName>>,
                                                <<"Entity:", newTableName>>))
                        ELSE acc,
                     <<>>, data.visuals)
        relationshipChanges ==
            FoldLeft(LAMBDA acc, rel :
                        acc
                        \o (IF rel.fromTable = oldTableName
                            THEN <<Change(RelationshipsFile, "relationship-table-reference",
                                          rel.name,
                                          <<oldTableName, ".", rel.fromColumn>>,
                                          <<newTableName, ".", rel.fromColumn>>)>>
                            ELSE <<>>)
                        \o (IF rel.toTable = oldTableName
                            THEN <<Change(RelationshipsFile, "relationship-table-reference",
                                          rel.name,
                                          <<oldTableName, ".", rel.toColumn>>,
                                          <<newTableName, ".", rel.toColumn>>)>>
                            ELSE <<>>),
                     <<>>, data.relationships)
    IN  IF ~HasNode(g, TableId(oldTableName)) THEN Rejected
        ELSE Planned(<<fileRename>> \o measureChanges \o visualChanges \o relationshipChanges)

\* DAX reserved keywords (the list of validateNewName)
daxReservedKeywords ==
    {"TRUE", "FALSE", "AND", "OR", "NOT", "IN", "VAR", "RETURN", "DEFINE",
     "MEASURE", "EVALUATE", "ORDER", "BY", "ASC", "DESC", "CALCULATE", "FILTER",
     "ALL", "VALUES", "DISTINCT", "RELATED", "SUM", "AVERAGE", "COUNT", "MIN",
     "MAX", "IF", "SWITCH", "BLANK", "TABLE", "COLUMN", "ROW", "SUMMARIZE",
     "ADDCOLUMNS", "SELECTCOLUMNS"}

\* TMDL reserved keywords (the list of validateNewName)
tmdlReservedKeywords ==
    {"table", "column", "measure", "relationship", "partition", "expression",
     "formatString", "isHidden", "dataType", "sourceColumn"}

\* the names of the model on which the test of invalidChars succeeds
NamesWithInvalidChars == {"[", "]", "{", "}", "'", "/", "a/b", "a[b]", "it's"}

validateNewName(newName, nodeType) ==
    LET issues ==
            (IF toUpperCase(newName) \in daxReservedKeywords
             THEN <<"is a DAX reserved keyword">> ELSE <<>>)
            \o (IF toLowerCase(newName) \in tmdlReservedKeywords
                THEN <<"is a TMDL reserved keyword">> ELSE <<>>)
            \o (IF newName \in NamesWithInvalidChars
                THEN <<"Name contains invalid characters">> ELSE <<>>)
    IN  IF newName = "" THEN [valid |-> FALSE, issues |-> <<"Name cannot be empty">>]
        ELSE [valid |-> issues = <<>>, issues |-> issues]

previewRename(g, data, oldName, newName, nodeType, tableName) ==
    LET conflictId == IF nodeType = "table" THEN TableId(newName)
                      ELSE IF nodeType = "measure" THEN MeasureId(newName)
                      ELSE ColumnId(tableName, newName)
    IN  IF oldName = "" \/ newName = "" THEN Rejected
        ELSE IF oldName = newName THEN Rejected
        ELSE IF ~validateNewName(newName, nodeType).valid THEN Rejected
        ELSE IF HasNode(g, conflictId) THEN Rejected
        ELSE IF nodeType = "measure" THEN previewMeasureRename(g, data, oldName, newName)
        ELSE IF nodeType = "column"
             THEN previewColumnRename(g, data, oldName, newName, tableName)
        ELSE IF nodeType = "table" THEN previewTableRename(g, data, oldName, newName)
        ELSE Planned(<<>>)

(***************************************************************************)
(* FileAccessManager: the project folder.                                  *)
(* files maps every path the programme can name to its content, or to      *)
(* NoFile when there is no such file.  A storage operation can fail; a     *)
(* write that fails leaves the file as it was (the writable is not closed).*)
(***************************************************************************)
NoFile == <<"<nofile>">>

TablesDir == "definition/tables/"

\* the .tmdl files of definition/tables other than Measure.tmdl, in listing order
TableFileStems == <<"T", "U", "V">>

\* the visuals of the report, in listing order
ReportVisuals == <<[pageId |-> "p1", visualId |-> "v1"]>>

Paths ==
    {MeasureFile, RelationshipsFile}
      \cup {TableFile(TableFileStems[k]) : k \in 1..Len(TableFileStems)}
      \cup {VisualFile(ReportVisuals[k].pageId, ReportVisuals[k].visualId) :
              k \in 1..Len(ReportVisuals)}

Exists(files, path) == path \in DOMAIN files /\ files[path] # NoFile

writeFile(files, path, content) == [files EXCEPT ![path] = content]

\* copy to the new name, then remove the old one; fault names the step that fails
renameFile(files, oldPath, newPath, fault) ==
    IF ~Exists(files, oldPath) \/ fault = "rn_early"
    THEN [ok |-> FALSE, files |-> files]
    ELSE LET created == IF Exists(files, newPath) THEN files
                        ELSE writeFile(files, newPath, <<>>)
             copied == writeFile(created, newPath, files[oldPath])
         IN  IF fault = "rn_write" THEN [ok |-> FALSE, files |-> created]
             ELSE IF fault = "rn_remove" THEN [ok |-> FALSE, files |-> copied]
             ELSE [ok |-> TRUE, files |-> [copied EXCEPT ![oldPath] = NoFile]]

readSemanticModelFiles(files) ==
    [measures |-> files[MeasureFile],
     tables |->
        FoldLeft(LAMBDA acc, stem :
                    IF Exists(files, TableFile(stem))
                    THEN Append(acc, [fileName |-> stem, content |-> files[TableFile(stem)]])
                    ELSE acc,
                 <<>>, TableFileStems),
     relationships |-> files[RelationshipsFile]]

readReportFiles(files) ==
    FoldLeft(LAMBDA acc, v :
                IF Exists(files, VisualFile(v.pageId, v.visualId))
                THEN Append(acc, [pageId |-> v.pageId, visualId |-> v.visualId,
                                  content |-> files[VisualFile(v.pageId, v.visualId)]])
                ELSE acc,
             <<>>, ReportVisuals)

\* the parsed data loadPBIPFiles leaves: measures and relationships are kept
\* from the previous load when their file is not there
loadPBIPFiles(files, previous) ==
    LET semanticModelFiles == readSemanticModelFiles(files)
        reportFiles == readReportFiles(files)
    IN  [measures |-> IF semanticModelFiles.measures # NoFile
                      THEN parseMeasuresTMDL(semanticModelFiles.measures)
                      ELSE previous.measures,
         tables |-> [k \in 1..Len(semanticModelFiles.tables) |->
                        parseTableTMDL(semanticModelFiles.tables[k].content,
                                       semanticModelFiles.tables[k].fileName)],
         relationships |-> IF semanticModelFiles.relationships # NoFile
                           THEN parseRelationshipsTMDL(semanticModelFiles.relationships)
                           ELSE previous.relationships,
         visuals |-> [k \in 1..Len(reportFiles) |->
                        [pageId |-> reportFiles[k].pageId,
                         visualId |-> reportFiles[k].visualId,
                         fields |-> extractFieldReferences(reportFiles[k].content)]]]

(***************************************************************************)
(* RefactoringEngine: applying the ChangeSet.                              *)
(* backups is the Map of the engine, as the sequence of its entries in     *)
(* insertion order.                                                        *)
(***************************************************************************)
Backup(key, type, oldFileName, newFileName, content) ==
    [key |-> key, type |-> type, oldFileName |-> oldFileName,
     newFileName |-> newFileName, content |-> content]

\* Map.prototype.set: an existing key keeps its place
MapSet(map, entry) ==
    IF \E k \in 1..Len(map) : map[k].key = entry.key
    THEN [k \in 1..Len(map) |-> IF map[k].key = entry.key THEN entry ELSE map[k]]
    ELSE Append(map, entry)

createBackup(map, filePath, content) ==
    MapSet(map, Backup(filePath, "content", "", "", content))

\* the permission the browser holds after the check: requestPermission is
\* called, and answered, only when queryPermission did not say "granted"
PermissionAfter(permission, answer) ==
    IF permission = "granted" THEN "granted" ELSE answer

\* a check that lets every call through
verifyWritePermissionAlways(permission, answer) == TRUE

\* TRUE when the check returns, FALSE when it throws
verifyWritePermission(permission, answer) ==
    PermissionAfter(permission, answer) = "granted"

fileRenameChanges(changes) == SelectSeq(changes, LAMBDA c : c.type = "file-rename")

contentChanges(changes) == SelectSeq(changes, LAMBDA c : c.type # "file-rename")

\* Object.entries(changesByFile): the files in order of first appearance
changesByFile(changes) ==
    LET content == contentChanges(changes)
        files == Dedup([k \in 1..Len(content) |-> content[k].file])
    IN  [k \in 1..Len(files) |->
            [filePath |-> files[k],
             changes |-> SelectSeq(content, LAMBDA c : c.file = files[k])]]

DaxChangeTypes == {"measure-dax-reference", "column-dax-reference", "table-dax-reference"}

\* one change applied to the text of its file
ApplyChangeToContent(content, change) ==
    IF change.type \in DaxChangeTypes
    THEN IF change.fullOldContent # <<>> /\ change.fullNewContent # <<>>
            /\ Includes(content, change.fullOldContent)
         THEN ReplaceFirst(content, change.fullOldContent, change.fullNewContent)
         ELSE content
    ELSE IF Includes(content, change.oldContent)
         THEN ReplaceAll(content, change.oldContent, change.newContent)
         ELSE content

\* a step's outcome: [ok, files, backups]
StepResult(ok, files, map) == [ok |-> ok, files |-> files, backups |-> map]

applyFileRename(files, map, change, fault) ==
    LET oldPath == TablesDir \o change.oldFileName
        newPath == TablesDir \o change.newFileName
        originalContent == files[oldPath]
        stored == MapSet(map, Backup(change.file, "file-rename", change.oldFileName,
                                     change.newFileName, originalContent))
        newContent == IF change.oldContent # <<>> /\ change.newContent # <<>>
                      THEN ReplaceAll(originalContent, change.oldContent, change.newContent)
                      ELSE originalContent
        renamed == renameFile(files, oldPath, newPath, fault)
    IN  IF ~Exists(files, oldPath) \/ fault = "read" THEN StepResult(FALSE, files, map)
        ELSE IF ~renamed.ok THEN StepResult(FALSE, renamed.files, stored)
        ELSE IF newContent = originalContent THEN StepResult(TRUE, renamed.files, stored)
        ELSE IF fault = "write" THEN StepResult(FALSE, renamed.files, stored)
        ELSE StepResult(TRUE, writeFile(renamed.files, newPath, newContent), stored)

applyChangesToFile(files, map, filePath, changes, fault) ==
    LET stored == createBackup(map, filePath, files[filePath])
        content == FoldLeft(ApplyChangeToContent, files[filePath], changes)
    IN  IF ~Exists(files, filePath) \/ fault = "read" THEN StepResult(FALSE, files, map)
        ELSE IF fault = "write" THEN StepResult(FALSE, files, stored)
        ELSE StepResult(TRUE, writeFile(files, filePath, content), stored)

\* one entry restored: [ok, files]
RestoreOne(files, backup, fault) ==
    LET oldPath == TablesDir \o backup.oldFileName
        newPath == TablesDir \o backup.newFileName
        renamed == renameFile(files, newPath, oldPath,
                              IF fault = "early" THEN "rn_early" ELSE "none")
    IN  IF backup.type = "file-rename"
        THEN IF ~renamed.ok THEN [ok |-> FALSE, files |-> renamed.files]
             ELSE IF fault = "late" THEN [ok |-> FALSE, files |-> renamed.files]
             ELSE [ok |-> TRUE, files |-> writeFile(renamed.files, oldPath, backup.content)]
        ELSE IF ~Exists(files, backup.key) \/ fault # "none"
             THEN [ok |-> FALSE, files |-> files]
             ELSE [ok |-> TRUE, files |-> writeFile(files, backup.key, backup.content)]

\* every entry is tried; the Map is cleared whatever happened; failures lists
\* the keys that could not be restored (the exception is thrown iff it is not empty)
restoreBackups(files, map, faultAt, faultKind) ==
    LET step[k \in 0..Len(map)] ==
            IF k = 0 THEN [files |-> files, failures |-> <<>>]
            ELSE LET r == RestoreOne(step[k - 1].files, map[k],
                                     IF k = faultAt THEN faultKind ELSE "none")
                 IN  [files |-> r.files,
                      failures |-> IF r.ok THEN step[k - 1].failures
                                   ELSE Append(step[k - 1].failures, map[k].key)]
    IN  [files |-> step[Len(map)].files,
         failures |-> step[Len(map)].failures,
         backups |-> <<>>]

(***************************************************************************)
(* The application: its state and its handlers.                            *)
(***************************************************************************)
VARIABLES
    fs,               \* the project folder on disk
    permission,       \* the browser's readwrite permission on the folder
    parsedData,       \* the snapshot: measures, tables, visuals, relationships
    dependencyGraph,  \* the analyzer's graph, built from parsedData
    graphVersion,     \* how many snapshots have been loaded so far
    previewChanges,   \* the engine's ChangeSet
    planVersion,      \* the snapshot the ChangeSet was planned from
    backups,          \* the engine's backups
    pc,               \* "idle", "applying" (inside try), "failed" (entering catch)
    renameQueue,      \* file-rename changes still to apply
    fileQueue,        \* changesByFile entries still to apply
    errorMessage,     \* message of the error applyChanges throws
    shown,            \* what showError / showSuccess last displayed
    preFs,            \* the folder as it was when applyChanges was called
    failures,         \* the keys restoreBackups could not restore
    faults,           \* storage failures so far
    previews,         \* previews so far
    impact,           \* the last findAllUpstream / findAllDownstream results
    request,          \* the rename last asked for in the refactoring form
    circular,         \* the last result of detectCircularDependencies
    deleteAnalysis,   \* the last result of analyzeDelete
    fs0,              \* the project folder as it was at the start
    nameValidation,   \* the last result of validateNewName
    lastLoad,         \* the parse failures of the last load and what was reported
    sessionData,      \* SessionManager.data: the recent analyses, most recent first
    sessionUse        \* how often addRecentAnalysis was called, and for a listed node

vars == <<fs, permission, parsedData, dependencyGraph, graphVersion, previewChanges,
          planVersion, backups, pc, renameQueue, fileQueue, errorMessage, shown,
          preFs, failures, faults, previews, impact, request, circular, deleteAnalysis,
          fs0, nameValidation, lastLoad, sessionData, sessionUse>>

graphVars == <<parsedData, dependencyGraph, graphVersion>>
applyVars == <<backups, pc, renameQueue, fileQueue, errorMessage, preFs, failures, faults>>

InitialFiles ==
    [p \in Paths |->
        CASE p = MeasureFile ->
               <<"measure", "'", "A", "'", "=", "SUM", "(", "T", "[", "x", "]", ")",
                 "lineageTag:", "m1",
                 "measure", "B", "=", "[", "A", "]", "+", "COUNTROWS", "(", "'", "V", "'", ")">>
          [] p = TableFile("T") -> <<"table", "T", "column", "'", "x", "'">>
          [] p = TableFile("V") -> <<"table", "'", "V", "'", "column", "x">>
          [] p = RelationshipsFile ->
               <<"relationship", "r", "fromColumn:", "T", ".", "x", "toColumn:", "V", ".", "x">>
          [] p = VisualFile("p1", "v1") ->
               <<"Measure", "Entity:", "Measure", "Property:", "A",
                 "Column", "Entity:", "T", "Property:", "x">>
          [] OTHER -> NoFile]

EmptyData == [measures |-> <<>>, tables |-> <<>>, visuals |-> <<>>, relationships |-> <<>>]

NoImpact == [target |-> "", maxDepth |-> Unbounded, upstream |-> {}, downstream |-> {}]

NoRequest == [type |-> "", oldName |-> "", newName |-> "", table |-> ""]

\* detectCircularDependencies and analyzeDelete have not been called
NoCycleCheck == [ran |-> FALSE, cycles |-> <<>>]

NoDeleteAnalysis ==
    [targetNode |-> "", riskLevel |-> "", directBreaks |-> {}, cascadeBreaks |-> {},
     relationships |-> <<>>, totalBreaks |-> 0]

\* nothing has been loaded
NoLoad == [failing |-> {}, tableParseErrors |-> <<>>]

\* SessionManager._defaults: no recent analysis
NoSession == [recentAnalyses |-> <<>>]

\* addRecentAnalysis has not been called
NoUse == [calls |-> 0, nodes |-> 0, repeats |-> 0]

\* validateNewName has not been called
NoValidation == [newName |-> "", nodeType |-> "", valid |-> FALSE, issues |-> <<>>]

\* the rename requests the refactoring form is used for
Requests ==
    {[type |-> "measure", oldName |-> "A", newName |-> "C", table |-> ""],
     [type |-> "measure", oldName |-> "B", newName |-> "A", table |-> ""],
     [type |-> "column", oldName |-> "x", newName |-> "y", table |-> "T"],
     [type |-> "table", oldName |-> "T", newName |-> "U", table |-> ""],
     [type |-> "table", oldName |-> "V", newName |-> "U", table |-> ""],
     [type |-> "table", oldName |-> "V", newName |-> "table", table |-> ""]}

MsgNoChanges == <<"No", "changes", "to", "apply">>
MsgPermissionDenied ==
    <<"Write", "permission", "denied.", "Please", "grant", "write", "access",
      "to", "apply", "changes.">>
MsgRolledBack == <<"(changes", "were", "rolled", "back)">>
MsgRollbackFailed ==
    <<"(WARNING:", "rollback", "also", "failed", "-", "manual", "recovery",
      "may", "be", "needed)">>
MsgRestored == <<"Your", "original", "files", "have", "been", "restored.">>
MsgTip == <<"Tip:", "Make", "sure", "no", "other", "application", "has", "the",
            "files", "open.">>
MsgSuccess == <<"Changes", "applied", "successfully!">>

\* the catch block of handleApplyChanges; message.includes(word) on the words
errorDetails(message) ==
    IF "rollback" \in Range(message) THEN message \o MsgRestored
    ELSE IF "permission" \in Range(message) THEN message \o MsgTip
    ELSE message

Init ==
    /\ fs = InitialFiles
    /\ permission = "prompt"
    /\ parsedData = EmptyData
    /\ dependencyGraph = EmptyGraph
    /\ graphVersion = 0
    /\ previewChanges = <<>>
    /\ planVersion = 0
    /\ backups = <<>>
    /\ pc = "idle"
    /\ renameQueue = <<>>
    /\ fileQueue = <<>>
    /\ errorMessage = <<>>
    /\ shown = <<>>
    /\ preFs = InitialFiles
    /\ failures = <<>>
    /\ faults = 0
    /\ previews = 0
    /\ impact = NoImpact
    /\ circular = NoCycleCheck
    /\ deleteAnalysis = NoDeleteAnalysis
    /\ fs0 = fs
    /\ nameValidation = NoValidation
    /\ lastLoad = NoLoad
    /\ sessionData = NoSession
    /\ sessionUse = NoUse
    /\ request = NoRequest

\* a folder is selected (again): the project is read, parsed and the graph rebuilt
HandleFolderSelection ==
    /\ pc = "idle"
    /\ graphVersion < MaxReloads
    /\ parsedData' = loadPBIPFiles(fs, parsedData)
    /\ dependencyGraph' = buildDependencyGraph(parsedData')
    /\ graphVersion' = graphVersion + 1
    /\ UNCHANGED <<fs, permission, previewChanges, planVersion, shown, impact, circular, deleteAnalysis, fs0, nameValidation, lastLoad, sessionData, sessionUse, previews, request>>
    /\ UNCHANGED applyVars

HandlePreviewRefactor(req) ==
    /\ pc = "idle"
    /\ graphVersion > 0
    /\ previews < MaxPreviews
    /\ LET result == previewRename(dependencyGraph, parsedData, req.oldName, req.newName,
                                   req.type, req.table)
       IN  /\ previewChanges' = result.changes
           /\ shown' = IF result.ok THEN <<>> ELSE <<"Error", "previewing", "rename">>
    /\ backups' = <<>>
    /\ planVersion' = graphVersion
    /\ previews' = previews + 1
    /\ request' = req
    /\ UNCHANGED <<fs, permission, impact, circular, deleteAnalysis, fs0, nameValidation, lastLoad, sessionData, sessionUse, pc, renameQueue, fileQueue, errorMessage,
                   preFs, failures, faults>>
    /\ UNCHANGED graphVars

\* handleApplyChanges up to the try block of applyChanges
HandleApplyChanges(answer) ==
    /\ pc = "idle"
    /\ LET refused == previewChanges = <<>> \/ ~verifyWritePermission(permission, answer)
           message == IF previewChanges = <<>> THEN MsgNoChanges ELSE MsgPermissionDenied
       IN  /\ permission' = IF previewChanges = <<>> THEN permission
                            ELSE PermissionAfter(permission, answer)
           /\ pc' = IF refused THEN "idle" ELSE "applying"
           /\ errorMessage' = IF refused THEN message ELSE <<>>
           /\ shown' = IF refused THEN errorDetails(message) ELSE <<>>
           /\ backups' = IF refused THEN backups ELSE <<>>
           /\ renameQueue' = IF refused THEN renameQueue ELSE fileRenameChanges(previewChanges)
           /\ fileQueue' = IF refused THEN fileQueue ELSE changesByFile(previewChanges)
           /\ preFs' = IF refused THEN preFs ELSE fs
    /\ failures' = <<>>
    /\ UNCHANGED <<fs, previewChanges, planVersion, faults, previews, impact, circular, deleteAnalysis, fs0, nameValidation, lastLoad, sessionData, sessionUse, request>>
    /\ UNCHANGED graphVars

RenameFaults == {"none", "read", "rn_early", "rn_write", "rn_remove", "write"}
WriteFaults == {"none", "read", "write"}
RestoreFaults == {"early", "late"}

ApplyFileRename(fault) ==
    /\ pc = "applying"
    /\ renameQueue # <<>>
    /\ fault # "none" => faults < MaxFaults
    /\ LET change == Head(renameQueue)
           result == applyFileRename(fs, backups, change, fault)
       IN  /\ fs' = result.files
           /\ backups' = result.backups
           /\ renameQueue' = IF result.ok THEN Tail(renameQueue) ELSE renameQueue
           /\ pc' = IF result.ok THEN "applying" ELSE "failed"
           /\ errorMessage' = IF result.ok THEN errorMessage
                              ELSE <<"Failed", "to", "rename", change.oldFileName>>
    /\ faults' = IF fault # "none" /\ pc' = "failed" THEN faults + 1 ELSE faults
    /\ UNCHANGED <<permission, previewChanges, planVersion, fileQueue, shown, preFs,
                   failures, previews, impact, circular, deleteAnalysis, fs0, nameValidation, lastLoad, sessionData, sessionUse, request>>
    /\ UNCHANGED graphVars

ApplyChangesToFile(fault) ==
    /\ pc = "applying"
    /\ renameQueue = <<>>
    /\ fileQueue # <<>>
    /\ fault # "none" => faults < MaxFaults
    /\ LET entry == Head(fileQueue)
           result == applyChangesToFile(fs, backups, entry.filePath, entry.changes, fault)
       IN  /\ fs' = result.files
           /\ backups' = result.backups
           /\ fileQueue' = IF result.ok THEN Tail(fileQueue) ELSE fileQueue
           /\ pc' = IF result.ok THEN "applying" ELSE "failed"
           /\ errorMessage' = IF result.ok THEN errorMessage
                              ELSE <<"Failed", "to", "update", entry.filePath>>
    /\ faults' = IF fault # "none" /\ pc' = "failed" THEN faults + 1 ELSE faults
    /\ UNCHANGED <<permission, previewChanges, planVersion, renameQueue, shown, preFs,
                   failures, previews, impact, circular, deleteAnalysis, fs0, nameValidation, lastLoad, sessionData, sessionUse, request>>
    /\ UNCHANGED graphVars

\* a success that keeps the ChangeSet
ApplySucceededKeepsPlan ==
    /\ pc = "applying"
    /\ renameQueue = <<>>
    /\ fileQueue = <<>>
    /\ backups' = <<>>
    /\ shown' = MsgSuccess
    /\ parsedData' = loadPBIPFiles(fs, parsedData)
    /\ dependencyGraph' = buildDependencyGraph(parsedData')
    /\ graphVersion' = graphVersion + 1
    /\ pc' = "idle"
    /\ UNCHANGED <<fs, permission, previewChanges, planVersion, renameQueue, fileQueue,
                   errorMessage, preFs, failures, faults, previews, impact, circular, deleteAnalysis, fs0, nameValidation, lastLoad, sessionData, sessionUse, request>>

\* the end of the try block, then the rest of handleApplyChanges: the reload
ApplySucceeded ==
    /\ pc = "applying"
    /\ renameQueue = <<>>
    /\ fileQueue = <<>>
    /\ backups' = <<>>
    /\ previewChanges' = <<>>
    /\ shown' = MsgSuccess
    /\ parsedData' = loadPBIPFiles(fs, parsedData)
    /\ dependencyGraph' = buildDependencyGraph(parsedData')
    /\ graphVersion' = graphVersion + 1
    /\ pc' = "idle"
    /\ UNCHANGED <<fs, permission, planVersion, renameQueue, fileQueue, errorMessage,
                   preFs, failures, faults, previews, impact, circular, deleteAnalysis, fs0, nameValidation, lastLoad, sessionData, sessionUse, request>>

\* the catch block of applyChanges, then that of handleApplyChanges
Rollback(faultAt, faultKind) ==
    /\ pc = "failed"
    /\ faultAt <= Len(backups)
    /\ faultAt # 0 => faults < MaxFaults
    /\ faultAt = 0 => faultKind = "early"
    /\ LET restored == restoreBackups(fs, backups, faultAt, faultKind)
           message == IF backups = <<>> THEN errorMessage
                      ELSE IF restored.failures = <<>> THEN errorMessage \o MsgRolledBack
                      ELSE errorMessage \o MsgRollbackFailed
       IN  /\ fs' = restored.files
           /\ backups' = restored.backups
           /\ failures' = restored.failures
           /\ errorMessage' = message
           /\ shown' = errorDetails(message)
    /\ faults' = IF faultAt = 0 THEN faults ELSE faults + 1
    /\ pc' = "idle"
    /\ UNCHANGED <<permission, previewChanges, planVersion, renameQueue, fileQueue,
                   preFs, previews, impact, circular, deleteAnalysis, fs0, nameValidation, lastLoad, sessionData, sessionUse, request>>
    /\ UNCHANGED graphVars

Next ==
    \/ HandleFolderSelection
    \/ \E req \in Requests : HandlePreviewRefactor(req)
    \/ \E answer \in {"granted", "denied"} : HandleApplyChanges(answer)
    \/ \E fault \in RenameFaults : ApplyFileRename(fault)
    \/ \E fault \in WriteFaults : ApplyChangesToFile(fault)
    \/ ApplySucceeded
    \/ \E faultAt \in 0..MaxFaults, faultKind \in RestoreFaults : Rollback(faultAt, faultKind)

Spec == Init /\ [][Next]_vars

(***************************************************************************)
(* Properties of applying a ChangeSet.                                     *)
(***************************************************************************)
\* applyChanges has rejected after a rollback that reported no failure
RolledBack == pc = "idle" /\ Includes(errorMessage, MsgRolledBack)

\* applyChanges has rejected after a rollback in which a restore failed
RollbackFailed == pc = "idle" /\ Includes(errorMessage, MsgRollbackFailed)

\* the step that ends the try block of applyChanges
ApplySucceededStep ==
    pc = "applying" /\ renameQueue = <<>> /\ fileQueue = <<>> /\ pc' = "idle"

KeysOf(map) == {map[k].key : k \in 1..Len(map)}

\* the files a stored backup can bring back
Covered(map) ==
    KeysOf(map) \cup {TablesDir \o map[k].newFileName :
                         k \in {j \in 1..Len(map) : map[j].type = "file-rename"}}

\* C1: when applyChanges rejects after at least one backup was stored and
\* every restore succeeded, every file has the name and content it had
\* when applyChanges was called.
C1_RollbackRestoresEveryFile == RolledBack => fs = preFs

\* a rollback that did bring a renamed file back under its old name
C1_Witness ==
    /\ RolledBack
    /\ fs = preFs
    /\ \E k \in 1..Len(previewChanges) : previewChanges[k].type = "file-rename"
    /\ faults > 0

\* C2: a file differs from its pre-apply state only once a backup that covers
\* it is stored, and a step removes a stored backup only when it ends a
\* successful apply or a rollback that restored everything: after a rollback
\* in which a restore failed the backups are still held.
C2_BackupsHeldUntilSuccess ==
    /\ [](pc \in {"applying", "failed"} =>
            \A p \in Paths : fs[p] # preFs[p] => p \in Covered(backups))
    /\ [][\/ KeysOf(backups) \subseteq KeysOf(backups')
          \/ ApplySucceededStep
          \/ (pc = "failed" /\ failures' = <<>>)]_vars

\* the part of C2 that the code keeps: the backup precedes the mutation
C2_BackupBeforeWrite ==
    pc \in {"applying", "failed"} =>
        \A p \in Paths : fs[p] # preFs[p] => p \in Covered(backups)

\* a rollback that could not restore a file, whose backups are gone
C2_Witness == RollbackFailed /\ failures # <<>> /\ backups = <<>> /\ fs # preFs

\* the error of the last applyChanges is what the user is shown
ApplyFailureShown ==
    pc = "idle" /\ errorMessage # <<>> /\ shown = errorDetails(errorMessage)

SaysRestored == Includes(shown, MsgRestored)

SaysManualRecovery == Includes(shown, <<"manual", "recovery">>)

\* C3: after a failed applyChanges the user is told the files were restored
\* only if no restore failed, and is told of the manual-recovery state
\* whenever a restore failed.
C3_RollbackOutcomeTruthful ==
    ApplyFailureShown =>
        /\ SaysRestored => failures = <<>>
        /\ failures # <<>> => SaysManualRecovery

\* the user is told the files were restored although a restore failed
C3_Witness == ApplyFailureShown /\ SaysRestored /\ failures # <<>> /\ fs # preFs

\* C4: no file is written, renamed or deleted unless the one permission check
\* at the start of applyChanges passed; a refused call changes no file.
C4_PermissionBeforeMutation ==
    /\ pc \in {"applying", "failed"} => permission = "granted"
    /\ permission # "granted" => fs = InitialFiles /\ backups = <<>>

\* a refused call: the permission was asked for and denied with a plan pending
C4_Witness ==
    /\ pc = "idle"
    /\ errorMessage = MsgPermissionDenied
    /\ permission = "denied"
    /\ previewChanges # <<>>
    /\ fs = InitialFiles

\* C5: applyChanges applies a ChangeSet only to the snapshot it was planned
\* from: no apply runs on a plan made before the last reload.
C5_AppliedToItsSnapshot == pc = "applying" => planVersion = graphVersion

\* a file changed by a plan older than the loaded snapshot
C5_Witness == pc = "applying" /\ planVersion < graphVersion /\ fs # preFs

\* C6: a successful applyChanges leaves no backup and no ChangeSet, and with
\* an empty ChangeSet a call of applyChanges is rejected and changes no file.
C6_AppliedAtMostOnce ==
    [][/\ ApplySucceededStep => backups' = <<>> /\ previewChanges' = <<>>
       /\ (pc = "idle" /\ previewChanges = <<>> /\ previewChanges' = <<>>)
             => (fs' = fs /\ pc' = "idle" /\ backups' = <<>>)]_vars

\* a second applyChanges rejected after a ChangeSet was applied
C6_Witness ==
    /\ pc = "idle"
    /\ errorMessage = MsgNoChanges
    /\ shown = MsgNoChanges
    /\ previewChanges = <<>>
    /\ backups = <<>>
    /\ fs # InitialFiles
    /\ faults = 0

(***************************************************************************)
(* The analyzer and the planner on parsed models.                          *)
(* The parsed data is drawn from ParsedInputs: three measures whose        *)
(* expressions vary, two tables, a calculation group, a parameter table,   *)
(* two visuals and a relationship.  Names are unique within their kind.    *)
(***************************************************************************)
DaxPoolA ==
    {<<"SUM", "(", "T", "[", "x", "]", ")">>,
     <<"T", "[", "x", "]", "+", "T", "[", "x", "]">>,
     <<"[", "C", "]">>}

DaxPoolB ==
    {<<"[", "A", "]">>,
     <<"[", "A", "]", "+", "'", "T", "'", "[", "y", "]">>,
     <<"COUNTROWS", "(", "V", ")", "+", "[", "Missing", "]">>,
     <<"SUM", "(", "T", "[", "C", "]", ")">>}

DaxPoolC ==
    {<<"[", "A", "]", "+", "[", "B", "]">>,
     <<"[", "B", "]">>,
     <<"COUNTROWS", "(", "T", ")", "+", "[", "C", "]">>,
     <<"[", "A", "]", "+", "[", "A", "]">>}

DaxPoolItem ==
    {<<>>, <<"SUM", "(", "T", "[", "x", "]", ")", "+", "COUNTROWS", "(", "V", ")">>}

PlainTable(name, columns) ==
    [tableName |-> name, columns |-> columns,
     isCalculationGroup |-> FALSE, calculationItems |-> <<>>,
     isFieldParameter |-> FALSE, fieldParameterRefs |-> <<>>]

Field(type, entity, property, location) ==
    [type |-> type, entity |-> entity, property |-> property, location |-> location]

ParsedInput(daxA, daxB, daxC, daxItem) ==
    [measures |-> <<[name |-> "A", dax |-> daxA], [name |-> "B", dax |-> daxB],
                    [name |-> "C", dax |-> daxC]>>,
     tables |->
        <<PlainTable("T", <<"x", "y">>),
          PlainTable("V", <<"x">>),
          [PlainTable("CG", <<"Name">>) EXCEPT
              !.isCalculationGroup = TRUE,
              !.calculationItems = <<[name |-> "I1", dax |-> daxItem],
                                     [name |-> "I2", dax |-> <<>>]>>],
          [PlainTable("FP", <<"FP">>) EXCEPT
              !.isFieldParameter = TRUE,
              !.fieldParameterRefs =
                  <<[type |-> "measure", table |-> "", property |-> "A"],
                    [type |-> "column", table |-> "T", property |-> "x"]>>]>>,
     visuals |->
        <<[pageId |-> "p1", visualId |-> "v1",
           fields |-> <<Field("measure", "Measure", "A", "queryState"),
                        Field("column", "T", "x", "queryState"),
                        Field("column", "CG", "Name", "queryState"),
                        Field("column", "FP", "FP", "fieldParameter")>>],
          [pageId |-> "p1", visualId |-> "v2",
           fields |-> <<Field("measure", "Measure", "C", "queryState"),
                        Field("column", "V", "x", "queryState")>>]>>,
     relationships |->
        <<[name |-> "r", fromTable |-> "T", fromColumn |-> "x",
           toTable |-> "V", toColumn |-> "x"]>>]

ParsedInputs ==
    {ParsedInput(a, b, c, i) :
        a \in DaxPoolA, b \in DaxPoolB, c \in DaxPoolC, i \in DaxPoolItem}

\* the renames the form offers for a graph: every measure, column and table
GraphRequests(g) ==
    {[type |-> g.nodes[id].type, oldName |-> g.nodes[id].name, newName |-> "Z",
      table |-> IF g.nodes[id].type = "column" THEN g.nodes[id].table ELSE ""] :
        id \in {n \in DOMAIN g.nodes : g.nodes[n].type \in {"measure", "column", "table"}}}

DepthArgs == {Unbounded} \cup 1..MaxDepthArg

InitGraph ==
    /\ fs = InitialFiles
    /\ permission = "prompt"
    /\ parsedData \in ParsedInputs
    /\ dependencyGraph = EmptyGraph
    /\ graphVersion = 0
    /\ previewChanges = <<>>
    /\ planVersion = 0
    /\ backups = <<>>
    /\ pc = "idle"
    /\ renameQueue = <<>>
    /\ fileQueue = <<>>
    /\ errorMessage = <<>>
    /\ shown = <<>>
    /\ preFs = InitialFiles
    /\ failures = <<>>
    /\ faults = 0
    /\ previews = 0
    /\ impact = NoImpact
    /\ circular = NoCycleCheck
    /\ deleteAnalysis = NoDeleteAnalysis
    /\ fs0 = fs
    /\ nameValidation = NoValidation
    /\ lastLoad = NoLoad
    /\ sessionData = NoSession
    /\ sessionUse = NoUse
    /\ request = NoRequest

\* DependencyAnalyzer.buildDependencyGraph on the parsed data
BuildDependencyGraph ==
    /\ graphVersion = 0
    /\ dependencyGraph' = buildDependencyGraph(parsedData)
    /\ graphVersion' = graphVersion + 1
    /\ UNCHANGED <<fs, permission, parsedData, previewChanges, planVersion, shown, impact, circular, deleteAnalysis, fs0, nameValidation, lastLoad, sessionData, sessionUse,
                   previews, request>>
    /\ UNCHANGED applyVars

\* findAllUpstream and findAllDownstream of one node, as analyzeImpactEnhanced
\* calls them (unbounded) or with a depth bound
AnalyzeImpact(nodeId, maxDepth) ==
    /\ graphVersion > 0
    /\ HasNode(dependencyGraph, nodeId)
    /\ impact' = [target |-> nodeId, maxDepth |-> maxDepth,
                  upstream |-> IdsOf(findAllUpstream(dependencyGraph, nodeId, maxDepth)),
                  downstream |-> IdsOf(findAllDownstream(dependencyGraph, nodeId, maxDepth))]
    /\ UNCHANGED <<fs, permission, previewChanges, planVersion, shown, previews, request,
                   circular, deleteAnalysis, fs0, nameValidation, lastLoad, sessionData, sessionUse>>
    /\ UNCHANGED graphVars
    /\ UNCHANGED applyVars

\* the analyzer alone: a graph is built and queried
NextGraph ==
    \/ BuildDependencyGraph
    \/ \E nodeId \in DOMAIN dependencyGraph.nodes, maxDepth \in DepthArgs :
          AnalyzeImpact(nodeId, maxDepth)

SpecGraph == InitGraph /\ [][NextGraph]_vars

\* the planner alone: a graph is built and renames are previewed on it
NextPlan ==
    \/ BuildDependencyGraph
    \/ \E req \in GraphRequests(dependencyGraph) : HandlePreviewRefactor(req)

SpecPlan == InitGraph /\ [][NextPlan]_vars

(***************************************************************************)
(* Claims on the planner (SpecPlan) and on the analyzer (SpecGraph).       *)
(***************************************************************************)
\* a plan is on display: the last preview was accepted
PlanShown == graphVersion > 0 /\ request # NoRequest /\ shown = <<>>

RequestNodeId ==
    IF request.type = "measure" THEN MeasureId(request.oldName)
    ELSE IF request.type = "column" THEN ColumnId(request.table, request.oldName)
    ELSE TableId(request.oldName)

\* the plan has an edit of this file that is not the renamed entity's own declaration
EditsFile(file) ==
    \E k \in 1..Len(previewChanges) :
        /\ previewChanges[k].file = file
        /\ previewChanges[k].type \notin
              {"measure-definition", "column-definition", "file-rename"}

\* the plan has an edit of this measure's expression
EditsMeasure(name) ==
    \E k \in 1..Len(previewChanges) :
        /\ previewChanges[k].file = MeasureFile
        /\ previewChanges[k].about = name
        /\ previewChanges[k].type \in
              {"measure-dax-reference", "column-dax-reference", "table-dax-reference"}

\* the plan has an edit of the artifact a usedBy entry stands for
UsageEdited(u) ==
    IF u.type = "measure" THEN EditsMeasure(u.name)
    ELSE IF u.type = "visual" THEN EditsFile(VisualFile(u.pageId, u.visualId))
    ELSE EditsFile(TableFile(dependencyGraph.nodes[u.ref].table))

UsagesEdited(types) ==
    LET usedBy == dependencyGraph.nodes[RequestNodeId].usedBy
    IN  \A k \in 1..Len(usedBy) : usedBy[k].type \in types => UsageEdited(usedBy[k])

RelationshipsEdited ==
    \A k \in 1..Len(parsedData.relationships) :
        LET rel == parsedData.relationships[k]
        IN  (\/ (rel.fromTable = request.table /\ rel.fromColumn = request.oldName)
             \/ (rel.toTable = request.table /\ rel.toColumn = request.oldName))
            => \E c \in 1..Len(previewChanges) :
                  /\ previewChanges[c].file = RelationshipsFile
                  /\ previewChanges[c].about = rel.name

\* the measures whose expression names the table: by a column of it or by itself
MeasuresNamingTable(tableName) ==
    {parsedData.measures[k].name : k \in
        {i \in 1..Len(parsedData.measures) :
            LET refs == extractReferences(parsedData.measures[i].dax)
            IN  \/ tableName \in Range(refs.tableRefs)
                \/ \E c \in 1..Len(refs.columnRefs) : refs.columnRefs[c].table = tableName}}

TableMeasuresEdited == \A m \in MeasuresNamingTable(request.oldName) : EditsMeasure(m)

TableVisualsEdited ==
    \A k \in 1..Len(parsedData.visuals) :
        LET v == parsedData.visuals[k]
        IN  (\E f \in 1..Len(v.fields) : v.fields[f].entity = request.oldName)
            => EditsFile(VisualFile(v.pageId, v.visualId))

TableRelationshipsEdited ==
    \A k \in 1..Len(parsedData.relationships) :
        LET rel == parsedData.relationships[k]
        IN  (rel.fromTable = request.oldName \/ rel.toTable = request.oldName)
            => \E c \in 1..Len(previewChanges) :
                  /\ previewChanges[c].file = RelationshipsFile
                  /\ previewChanges[c].about = rel.name

\* the parameter tables with a mapping onto a column of the table
ParameterTablesNaming(tableName) ==
    {parsedData.tables[k].tableName : k \in
        {i \in 1..Len(parsedData.tables) :
            /\ parsedData.tables[i].isFieldParameter
            /\ \E r \in 1..Len(parsedData.tables[i].fieldParameterRefs) :
                  /\ parsedData.tables[i].fieldParameterRefs[r].type = "column"
                  /\ parsedData.tables[i].fieldParameterRefs[r].table = tableName}}

TableParameterMappingsEdited ==
    \A p \in ParameterTablesNaming(request.oldName) : EditsFile(TableFile(p))

AllUsageTypes == {"measure", "visual", "fieldParameter", "calculationItem"}

\* C7: the plan of a rename has an edit for every artifact referencing the
\* renamed entity: for a measure or a column every usedBy entry of whatever
\* kind and every relationship using the column; for a table every measure,
\* visual, relationship and parameter-table mapping naming it.
C7_PlanCoversEveryReference ==
    PlanShown =>
        /\ request.type \in {"measure", "column"} => UsagesEdited(AllUsageTypes)
        /\ request.type = "column" => RelationshipsEdited
        /\ request.type = "table" =>
              /\ TableMeasuresEdited
              /\ TableVisualsEdited
              /\ TableRelationshipsEdited
              /\ TableParameterMappingsEdited

\* the part of C7 the planner does provide: measures, visuals and parameter
\* tables in usedBy, relationships, and for a table its measures, visuals
\* and relationships
C7_PlanCoversMeasuresVisualsRelationships ==
    PlanShown =>
        /\ request.type \in {"measure", "column"} =>
              UsagesEdited({"measure", "visual", "fieldParameter"})
        /\ request.type = "column" => RelationshipsEdited
        /\ request.type = "table" =>
              /\ TableMeasuresEdited
              /\ TableVisualsEdited
              /\ TableRelationshipsEdited

\* a column used by a calculation item is renamed and the plan leaves the
\* calculation group's file alone
C7_Witness ==
    /\ PlanShown
    /\ request.type = "column"
    /\ \E k \in 1..Len(dependencyGraph.nodes[RequestNodeId].usedBy) :
          LET u == dependencyGraph.nodes[RequestNodeId].usedBy[k]
          IN  u.type = "calculationItem" /\ ~UsageEdited(u)

\* a table a parameter table maps onto is renamed and the plan leaves the
\* parameter table's file alone
C7_WitnessTable ==
    /\ PlanShown
    /\ request.type = "table"
    /\ ParameterTablesNaming(request.oldName) # {}
    /\ ~TableParameterMappingsEdited

\* how many entries of a dependencies or usedBy list refer to one id
RefCount(list, id) == Cardinality({k \in 1..Len(list) : list[k].ref = id})

RefsOf(list) == {list[k].ref : k \in 1..Len(list)}

GraphBuilt == graphVersion > 0

ImpactShown == GraphBuilt /\ impact # NoImpact

\* C9: for every node t and every depth bound maxDepth >= 1, and without a
\* bound, every node in t.usedBy is in findAllDownstream(t, maxDepth) and
\* every node t depends on is in findAllUpstream(t, maxDepth).
C9_DirectNeighboursInClosure ==
    ImpactShown =>
        LET t == dependencyGraph.nodes[impact.target]
        IN  /\ RefsOf(t.usedBy) \subseteq impact.downstream
            /\ RefsOf(t.dependencies) \subseteq impact.upstream

\* C9 without a bound and for nodes other than t itself
C9_DirectNeighboursInUnboundedClosure ==
    (ImpactShown /\ impact.maxDepth = Unbounded) =>
        LET t == dependencyGraph.nodes[impact.target]
        IN  /\ RefsOf(t.usedBy) \ {impact.target} \subseteq impact.downstream
            /\ RefsOf(t.dependencies) \ {impact.target} \subseteq impact.upstream

\* a bounded query misses a node that refers to the target directly and to
\* no self-reference
C9_Witness ==
    /\ ImpactShown
    /\ impact.maxDepth = 1
    /\ \E n \in RefsOf(dependencyGraph.nodes[impact.target].usedBy) :
          n # impact.target /\ n \notin impact.downstream

ExtendedInput(data) ==
    [data EXCEPT
        !.measures = @ \o
            <<[name |-> "D", dax |-> <<"[", "A", "]", "+", "T", "[", "y", "]">>],
              [name |-> "E", dax |-> <<"[", "D", "]", "+", "T", "[", "zz", "]", "+",
                                       "COUNTROWS", "(", "W", ")">>]>>,
        !.tables = [@ EXCEPT
                       ![3].calculationItems =
                           Append(@, [name |-> "I3",
                                      dax |-> <<"W", "[", "q", "]", "+",
                                                "COUNTROWS", "(", "W", ")">>]),
                       ![4].fieldParameterRefs =
                           Append(@, [type |-> "column", table |-> "T",
                                      property |-> "gone"])]
                   \o <<PlainTable("Table", <<"V">>)>>,
        !.visuals = @ \o
            <<[pageId |-> "p1", visualId |-> "v3",
               fields |-> <<Field("measure", "Measure", "E", "queryState"),
                            Field("measure", "Measure", "Gone", "queryState"),
                            Field("column", "T", "y", "queryState"),
                            Field("column", "T", "gone", "queryState"),
                            Field("column", "FP", "FP", "queryState")>>]>>]

AnalysisInputs == ParsedInputs \cup {ExtendedInput(data) : data \in ParsedInputs}

InitAnalysis ==
    /\ fs = InitialFiles
    /\ permission = "prompt"
    /\ parsedData \in AnalysisInputs
    /\ dependencyGraph = EmptyGraph
    /\ graphVersion = 0
    /\ previewChanges = <<>>
    /\ planVersion = 0
    /\ backups = <<>>
    /\ pc = "idle"
    /\ renameQueue = <<>>
    /\ fileQueue = <<>>
    /\ errorMessage = <<>>
    /\ shown = <<>>
    /\ preFs = InitialFiles
    /\ failures = <<>>
    /\ faults = 0
    /\ previews = 0
    /\ impact = NoImpact
    /\ request = NoRequest
    /\ circular = NoCycleCheck
    /\ deleteAnalysis = NoDeleteAnalysis
    /\ fs0 = fs
    /\ nameValidation = NoValidation
    /\ lastLoad = NoLoad
    /\ sessionData = NoSession
    /\ sessionUse = NoUse

\* DependencyAnalyzer.detectCircularDependencies on the graph
DetectCircularDependencies ==
    /\ graphVersion > 0
    /\ circular' = [ran |-> TRUE,
                    cycles |-> detectCircularDependencies(dependencyGraph, parsedData)]
    /\ UNCHANGED <<fs, permission, previewChanges, planVersion, shown, previews, request,
                   impact, deleteAnalysis, fs0, nameValidation, lastLoad, sessionData, sessionUse>>
    /\ UNCHANGED graphVars
    /\ UNCHANGED applyVars

\* DependencyAnalyzer.analyzeDelete of a node of the graph
AnalyzeDelete(nodeId) ==
    /\ graphVersion > 0
    /\ HasNode(dependencyGraph, nodeId)
    /\ deleteAnalysis' = analyzeDelete(dependencyGraph, parsedData, nodeId)
    /\ UNCHANGED <<fs, permission, previewChanges, planVersion, shown, previews, request,
                   impact, circular, fs0, nameValidation, lastLoad, sessionData, sessionUse>>
    /\ UNCHANGED graphVars
    /\ UNCHANGED applyVars

NextAnalysis ==
    \/ BuildDependencyGraph
    \/ DetectCircularDependencies
    \/ \E nodeId \in DOMAIN dependencyGraph.nodes : AnalyzeDelete(nodeId)

SpecAnalysis == InitAnalysis /\ [][NextAnalysis]_vars

(***************************************************************************)
(* Claims on cycle detection, delete analysis and the nodes (SpecAnalysis).*)
(***************************************************************************)
\* the existing nodes a node depends on directly
DependsOn(g, a) == RefsOf(g.nodes[a].dependencies) \cap DOMAIN g.nodes

\* the nodes that use a node directly
UsedByOf(g, a) == RefsOf(g.nodes[a].usedBy) \cap DOMAIN g.nodes

RECURSIVE ReachFrom(_, _, _)
ReachFrom(g, frontier, seen) ==
    LET next == UNION {DependsOn(g, n) : n \in frontier} \ seen
    IN  IF next = {} THEN seen ELSE ReachFrom(g, next, seen \cup next)

\* the nodes reached from a by one or more dependency edges
DependencyClosure(g, a) == ReachFrom(g, DependsOn(g, a), DependsOn(g, a))

\* the nodes that lie on a dependency cycle
OnCycle(g) == {n \in DOMAIN g.nodes : n \in DependencyClosure(g, n)}

Acyclic(g) == OnCycle(g) = {}

\* the only cycle of the graph is one through three measures
OnlyThreeCycle(g) ==
    LET S == OnCycle(g)
    IN  /\ Cardinality(S) = 3
        /\ \A n \in S :
              /\ g.nodes[n].type = "measure"
              /\ n \notin DependsOn(g, n)
              /\ Cardinality(DependsOn(g, n) \cap S) = 1

CyclesChecked == GraphBuilt /\ circular.ran

\* C11: detectCircularDependencies returns the empty list on a graph without
\* a dependency cycle, and on a graph whose only cycle runs through three
\* measures it returns exactly one cycle, with those three measures as nodes.
C11_CyclesDetected ==
    CyclesChecked =>
        /\ Acyclic(dependencyGraph) => circular.cycles = <<>>
        /\ OnlyThreeCycle(dependencyGraph) =>
              /\ Len(circular.cycles) = 1
              /\ Range(circular.cycles[1]) = OnCycle(dependencyGraph)

\* the one cycle of three measures has been reported
C11_Witness ==
    /\ CyclesChecked
    /\ OnlyThreeCycle(dependencyGraph)
    /\ Len(circular.cycles) = 1
    /\ Len(circular.cycles[1]) = 4

\* detection has returned the empty list on a graph without a cycle that has
\* edges between measures
C11_WitnessAcyclic ==
    /\ CyclesChecked
    /\ Acyclic(dependencyGraph)
    /\ circular.cycles = <<>>
    /\ \E a \in DOMAIN dependencyGraph.nodes :
          /\ dependencyGraph.nodes[a].type = "measure"
          /\ \E b \in DependsOn(dependencyGraph, a) :
                dependencyGraph.nodes[b].type = "measure"

RECURSIVE ReachDown(_, _, _)
ReachDown(g, frontier, seen) ==
    LET next == UNION {UsedByOf(g, n) : n \in frontier} \ seen
    IN  IF next = {} THEN seen ELSE ReachDown(g, next, seen \cup next)

\* the nodes that depend on t, directly or not, t itself left out
Dependents(g, t) == ReachDown(g, UsedByOf(g, t), UsedByOf(g, t)) \ {t}

DependentsOfTypes(g, t, types) == {n \in Dependents(g, t) : g.nodes[n].type \in types}

\* the relationships of the parsed model that use a column node
RelationshipsOn(g, t) ==
    IF g.nodes[t].type # "column" THEN {}
    ELSE {k \in 1..Len(parsedData.relationships) :
            LET rel == parsedData.relationships[k]
            IN  \/ (rel.fromTable = g.nodes[t].table /\ rel.fromColumn = g.nodes[t].name)
                \/ (rel.toTable = g.nodes[t].table /\ rel.toColumn = g.nodes[t].name)}

DeleteAnalysed == GraphBuilt /\ deleteAnalysis # NoDeleteAnalysis

\* the levels the claim gives, for a count of downstream dependents
DeleteRiskLevelsFor(count) ==
    LET g == dependencyGraph
        t == deleteAnalysis.targetNode
    IN  /\ (g.nodes[t].type = "measure" /\ g.nodes[t].usedBy = <<>>)
              => deleteAnalysis.riskLevel = "safe"
        /\ RelationshipsOn(g, t) # {} => deleteAnalysis.riskLevel # "safe"
        /\ (RelationshipsOn(g, t) = {} /\ count \in 1..5)
              => deleteAnalysis.riskLevel = "caution"
        /\ (RelationshipsOn(g, t) = {} /\ count >= 6)
              => deleteAnalysis.riskLevel = "dangerous"

AllNodeTypes ==
    {"measure", "column", "table", "visual", "calculationItem", "calculationGroup",
     "fieldParameter"}

\* C12: analyzeDelete returns 'safe' for a measure with an empty usedBy list,
\* a level other than 'safe' for a column used by a relationship, and without
\* relationship breaks 'caution' for 1 to 5 downstream dependents and
\* 'dangerous' for 6 or more.
C12_DeleteRiskLevels ==
    DeleteAnalysed =>
        DeleteRiskLevelsFor(
            Cardinality(DependentsOfTypes(dependencyGraph, deleteAnalysis.targetNode,
                                          AllNodeTypes)))

\* C12 with only the measures and visuals downstream counted as dependents
C12_DeleteRiskLevelsMeasuresVisuals ==
    DeleteAnalysed =>
        DeleteRiskLevelsFor(
            Cardinality(DependentsOfTypes(dependencyGraph, deleteAnalysis.targetNode,
                                          {"measure", "visual"})))

\* a node reported safe to delete while a calculation item or a parameter
\* table depends on it
C12_Witness ==
    /\ DeleteAnalysed
    /\ deleteAnalysis.riskLevel = "safe"
    /\ RelationshipsOn(dependencyGraph, deleteAnalysis.targetNode) = {}
    /\ DependentsOfTypes(dependencyGraph, deleteAnalysis.targetNode,
                         {"calculationItem", "fieldParameter"}) # {}

\* the three levels on measures and visuals: six or more dependents without
\* a relationship, and a column with a relationship
C12_WitnessLevels ==
    /\ DeleteAnalysed
    /\ deleteAnalysis.riskLevel = "dangerous"
    /\ RelationshipsOn(dependencyGraph, deleteAnalysis.targetNode) = {}
    /\ Cardinality(DependentsOfTypes(dependencyGraph, deleteAnalysis.targetNode,
                                     {"measure", "visual"})) >= 6

\* the measures and visuals, other than t, that refer to t directly
DirectReferrers(g, t) ==
    {n \in UsedByOf(g, t) \ {t} : g.nodes[n].type \in {"measure", "visual"}}

\* C13: in analyzeDelete(target) every measure or visual in target.usedBy is
\* in directBreaks, cascadeBreaks holds only dependents that do not refer to
\* the target directly, and no dependent is in both.
C13_DirectAndCascadeBreaks ==
    DeleteAnalysed =>
        LET direct == DirectReferrers(dependencyGraph, deleteAnalysis.targetNode)
        IN  /\ direct \subseteq deleteAnalysis.directBreaks
            /\ deleteAnalysis.cascadeBreaks \cap direct = {}
            /\ deleteAnalysis.directBreaks \cap deleteAnalysis.cascadeBreaks = {}

\* the part of C13 that holds: what is reported direct refers to the target
\* directly, and nothing is reported twice
C13_BreaksDisjoint ==
    DeleteAnalysed =>
        /\ deleteAnalysis.directBreaks
              \subseteq DirectReferrers(dependencyGraph, deleteAnalysis.targetNode)
        /\ deleteAnalysis.directBreaks \cap deleteAnalysis.cascadeBreaks = {}

\* a measure that refers to the target directly is reported as a cascade break
C13_Witness ==
    /\ DeleteAnalysed
    /\ \E n \in DirectReferrers(dependencyGraph, deleteAnalysis.targetNode) :
          /\ dependencyGraph.nodes[n].type = "measure"
          /\ n \in deleteAnalysis.cascadeBreaks
          /\ n \notin deleteAnalysis.directBreaks

\* the references of an expression whose target has no node, as
\* [kind, nodeId, name] with nodeId the node the expression belongs to
UnresolvedIn(g, dax, nodeId) ==
    LET refs == extractReferences(dax)
    IN  {[kind |-> "measure", nodeId |-> nodeId, name |-> refs.measureRefs[k]] :
            k \in {j \in 1..Len(refs.measureRefs) :
                      ~HasNode(g, MeasureId(refs.measureRefs[j]))}}
        \cup
        {[kind |-> "column", nodeId |-> nodeId,
          name |-> ColumnId(refs.columnRefs[k].table, refs.columnRefs[k].column)] :
            k \in {j \in 1..Len(refs.columnRefs) :
                      ~HasNode(g, ColumnId(refs.columnRefs[j].table,
                                           refs.columnRefs[j].column))}}
        \cup
        {[kind |-> "table", nodeId |-> nodeId, name |-> refs.tableRefs[k]] :
            k \in {j \in 1..Len(refs.tableRefs) : ~HasNode(g, TableId(refs.tableRefs[j]))}}

UnresolvedMeasureRefs(g, data) ==
    UNION {UnresolvedIn(g, data.measures[i].dax, MeasureId(data.measures[i].name)) :
              i \in 1..Len(data.measures)}

UnresolvedCalcItemRefs(g, data) ==
    UNION {UNION {UnresolvedIn(g, data.tables[i].calculationItems[k].dax,
                               CalcItemId(data.tables[i].tableName,
                                          data.tables[i].calculationItems[k].name)) :
                     k \in 1..Len(data.tables[i].calculationItems)} :
              i \in {j \in 1..Len(data.tables) : data.tables[j].isCalculationGroup}}

\* a visual field resolves to a measure, or to a parameter table, a
\* calculation group or a column
FieldResolves(g, f) ==
    IF f.type = "measure" THEN HasNode(g, MeasureId(f.property))
    ELSE \/ HasNode(g, FieldParamId(f.entity))
         \/ HasNode(g, CalcGroupId(f.entity))
         \/ HasNode(g, ColumnId(f.entity, f.property))

UnresolvedVisualFields(g, data) ==
    UNION {{[kind |-> data.visuals[i].fields[k].type,
             nodeId |-> VisualId(data.visuals[i].pageId, data.visuals[i].visualId),
             name |-> IF data.visuals[i].fields[k].type = "measure"
                      THEN data.visuals[i].fields[k].property
                      ELSE ColumnId(data.visuals[i].fields[k].entity,
                                    data.visuals[i].fields[k].property)] :
              k \in {j \in 1..Len(data.visuals[i].fields) :
                        /\ data.visuals[i].fields[j].type \in {"measure", "column"}
                        /\ ~FieldResolves(g, data.visuals[i].fields[j])}} :
           i \in 1..Len(data.visuals)}

UnresolvedParameterMappings(g, data) ==
    UNION {{[kind |-> data.tables[i].fieldParameterRefs[k].type,
             nodeId |-> FieldParamId(data.tables[i].tableName),
             name |-> IF data.tables[i].fieldParameterRefs[k].type = "measure"
                      THEN data.tables[i].fieldParameterRefs[k].property
                      ELSE ColumnId(data.tables[i].fieldParameterRefs[k].table,
                                    data.tables[i].fieldParameterRefs[k].property)] :
              k \in {j \in 1..Len(data.tables[i].fieldParameterRefs) :
                        ~HasNode(g,
                                 IF data.tables[i].fieldParameterRefs[j].type = "measure"
                                 THEN MeasureId(data.tables[i].fieldParameterRefs[j].property)
                                 ELSE ColumnId(data.tables[i].fieldParameterRefs[j].table,
                                               data.tables[i].fieldParameterRefs[j].property))}} :
           i \in {j \in 1..Len(data.tables) : data.tables[j].isFieldParameter}}

\* the orphaned-reference records as [kind, nodeId, name]
RecordedOrphans(g) ==
    {[kind |-> g.orphanedReferences[k].type,
      nodeId |-> g.orphanedReferences[k].nodeId,
      name |-> g.orphanedReferences[k].referencedName] :
        k \in 1..Len(g.orphanedReferences)}

EdgesResolved(g) ==
    \A k \in 1..Len(g.edges) : HasNode(g, g.edges[k].from) /\ HasNode(g, g.edges[k].to)

\* C14: every reference of a measure expression, visual field,
\* calculation-item expression or parameter-table mapping whose target has no
\* node creates no edge and has an orphaned-reference record with its kind,
\* the referencing node id and the referenced name.
C14_UnresolvedReferencesRecorded ==
    GraphBuilt =>
        /\ EdgesResolved(dependencyGraph)
        /\ UnresolvedMeasureRefs(dependencyGraph, parsedData)
              \cup UnresolvedVisualFields(dependencyGraph, parsedData)
              \cup UnresolvedCalcItemRefs(dependencyGraph, parsedData)
              \cup UnresolvedParameterMappings(dependencyGraph, parsedData)
              \subseteq RecordedOrphans(dependencyGraph)

\* the part of C14 that holds: no edge without a target, and a record for
\* every unresolved measure or column reference of a measure expression
C14_MeasureExpressionOrphansRecorded ==
    GraphBuilt =>
        /\ EdgesResolved(dependencyGraph)
        /\ {u \in UnresolvedMeasureRefs(dependencyGraph, parsedData) : u.kind # "table"}
              = RecordedOrphans(dependencyGraph)

\* a visual field with no target, and no record of it
C14_Witness ==
    /\ GraphBuilt
    /\ \E u \in UnresolvedVisualFields(dependencyGraph, parsedData) :
          u \notin RecordedOrphans(dependencyGraph)

\* an unresolved reference of a measure expression that is recorded
C14_WitnessRecorded ==
    /\ GraphBuilt
    /\ UnresolvedMeasureRefs(dependencyGraph, parsedData)
          \cap RecordedOrphans(dependencyGraph) # {}

\* the entities of the parsed model as [kind, at, id]: at is the position of
\* the entity in the parsed data, id the node id buildDependencyGraph gives it
Entities(data) ==
    {[kind |-> "measure", at |-> <<i>>, id |-> MeasureId(data.measures[i].name)] :
        i \in 1..Len(data.measures)}
    \cup
    UNION {{[kind |-> "column", at |-> <<i, k>>,
             id |-> ColumnId(data.tables[i].tableName, data.tables[i].columns[k])] :
               k \in 1..Len(data.tables[i].columns)} : i \in 1..Len(data.tables)}
    \cup
    {[kind |-> "table", at |-> <<i>>, id |-> TableId(data.tables[i].tableName)] :
        i \in 1..Len(data.tables)}
    \cup
    {[kind |-> "visual", at |-> <<i>>,
      id |-> VisualId(data.visuals[i].pageId, data.visuals[i].visualId)] :
        i \in 1..Len(data.visuals)}
    \cup
    {[kind |-> "calculationGroup", at |-> <<i>>,
      id |-> CalcGroupId(data.tables[i].tableName)] :
        i \in {j \in 1..Len(data.tables) : data.tables[j].isCalculationGroup}}
    \cup
    UNION {{[kind |-> "calculationItem", at |-> <<i, k>>,
             id |-> CalcItemId(data.tables[i].tableName,
                               data.tables[i].calculationItems[k].name)] :
               k \in 1..Len(data.tables[i].calculationItems)} :
           i \in {j \in 1..Len(data.tables) : data.tables[j].isCalculationGroup}}
    \cup
    {[kind |-> "fieldParameter", at |-> <<i>>,
      id |-> FieldParamId(data.tables[i].tableName)] :
        i \in {j \in 1..Len(data.tables) : data.tables[j].isFieldParameter}}

\* C15: buildDependencyGraph creates exactly one node for each measure, column,
\* table, visual, calculation group, calculation item and parameter table of
\* the parsed model, and no two distinct entities have the same node id.
C15_OneNodePerEntity ==
    GraphBuilt =>
        LET es == Entities(parsedData)
        IN  /\ \A e \in es : /\ HasNode(dependencyGraph, e.id)
                             /\ dependencyGraph.nodes[e.id].type = e.kind
            /\ \A e1, e2 \in es : e1 # e2 => e1.id # e2.id
            /\ Cardinality(DOMAIN dependencyGraph.nodes) = Cardinality(es)

\* the part of C15 that holds: every node is the node of some entity, and
\* every entity's id has a node
C15_NodesAreEntities ==
    GraphBuilt =>
        DOMAIN dependencyGraph.nodes = {e.id : e \in Entities(parsedData)}

\* a column and a table of the parsed model share one node id
C15_Witness ==
    /\ GraphBuilt
    /\ \E e1, e2 \in Entities(parsedData) :
          /\ e1.kind = "column" /\ e2.kind = "table"
          /\ e1.id = e2.id
          /\ dependencyGraph.nodes[e1.id].type = "table"

\* a model without shared ids: one node per entity
C15_WitnessDistinct ==
    /\ GraphBuilt
    /\ \A e1, e2 \in Entities(parsedData) : e1 # e2 => e1.id # e2.id
    /\ Cardinality(DOMAIN dependencyGraph.nodes) = Cardinality(Entities(parsedData))

(***************************************************************************)
(* validateNewName alone: names are validated one after the other.         *)
(***************************************************************************)
\* the names handed to validateNewName: every spelling of every word of the
\* model, the empty name and the names with invalid characters
CandidateNames ==
    UNION {Spellings(w) : w \in LetterCase} \cup NamesWithInvalidChars \cup {""}

NodeTypes == {"measure", "column", "table"}

ValidateNewName(newName, nodeType) ==
    /\ nameValidation' =
          [newName |-> newName, nodeType |-> nodeType,
           valid |-> validateNewName(newName, nodeType).valid,
           issues |-> validateNewName(newName, nodeType).issues]
    /\ UNCHANGED <<fs, permission, previewChanges, planVersion, shown, previews, request,
                   impact, circular, deleteAnalysis, fs0, lastLoad, sessionData, sessionUse>>
    /\ UNCHANGED graphVars
    /\ UNCHANGED applyVars

NextValidate ==
    \E newName \in CandidateNames, nodeType \in NodeTypes : ValidateNewName(newName, nodeType)

SpecValidate == Init /\ [][NextValidate]_vars

\* two names are the same word but for the case of their letters
EqualIgnoringCase(a, b) == a = b \/ \E w \in LetterCase : {a, b} \subseteq Spellings(w)

NameValidated == nameValidation.nodeType # ""

\* C17: a candidate name that equals, ignoring letter case, a keyword of the
\* DAX list or of the TMDL list is rejected by validateNewName.
C17_ReservedKeywordsRejected ==
    NameValidated =>
        ((\E k \in daxReservedKeywords \cup tmdlReservedKeywords :
             EqualIgnoringCase(nameValidation.newName, k))
         => ~nameValidation.valid)

\* the part of C17 that holds: the DAX keywords and the TMDL keywords written
\* in small letters are rejected in every spelling
C17_SmallLetterKeywordsRejected ==
    NameValidated =>
        ((\E k \in daxReservedKeywords \cup {t \in tmdlReservedKeywords : toLowerCase(t) = t} :
             EqualIgnoringCase(nameValidation.newName, k))
         => ~nameValidation.valid)

\* the TMDL keyword formatString, as written in the list, is accepted
C17_Witness ==
    /\ NameValidated
    /\ nameValidation.newName = "formatString"
    /\ nameValidation.newName \in tmdlReservedKeywords
    /\ nameValidation.valid

\* a keyword in another spelling than the list's is rejected
C17_WitnessRejected ==
    /\ NameValidated
    /\ nameValidation.newName = "Table"
    /\ ~nameValidation.valid

(***************************************************************************)
(* Renaming without storage failures: a folder is opened, renames are      *)
(* previewed and applied, and the folder is read again after each success. *)
(***************************************************************************)
\* a folder in which the table V has a column named as the measure A, and the
\* visual shows the column x of T and the column x of V
FolderWithHomonyms ==
    [InitialFiles EXCEPT
        ![MeasureFile] =
            <<"measure", "'", "A", "'", "=", "SUM", "(", "T", "[", "x", "]", ")",
              "lineageTag:", "m1",
              "measure", "'", "B", "'", "=", "[", "A", "]", "+", "SUM", "(", "V", "[", "A", "]", ")",
              "+", "SUM", "(", "V", "[", "x", "]", ")", "+", "SUM", "(", "T", "[", "x", "]", ")">>,
        ![TableFile("V")] = <<"table", "'", "V", "'", "column", "x", "column", "A">>,
        ![VisualFile("p1", "v1")] =
            <<"Measure", "Entity:", "Measure", "Property:", "A",
              "Column", "Entity:", "T", "Property:", "x",
              "Column", "Entity:", "V", "Property:", "x">>]

\* the project folders: the measure B refers to A once, or also in small letters
RenameFolders ==
    {InitialFiles,
     [InitialFiles EXCEPT
         ![MeasureFile] =
             <<"measure", "'", "A", "'", "=", "SUM", "(", "T", "[", "x", "]", ")",
               "lineageTag:", "m1",
               "measure", "B", "=", "[", "A", "]", "+", "[", "a", "]">>],
     FolderWithHomonyms}

Rename(type, oldName, newName, table) ==
    [type |-> type, oldName |-> oldName, newName |-> newName, table |-> table]

\* a measure renamed to a fresh name and back, and names that are to be refused
RenameRequests ==
    {Rename("measure", "A", "C", ""), Rename("measure", "C", "A", ""),
     Rename("measure", "B", "D", ""), Rename("measure", "D", "B", ""),
     Rename("table", "T", "U", ""),
     Rename("measure", "A", "", ""), Rename("measure", "A", "A", ""),
     Rename("measure", "A", "B", ""), Rename("table", "T", "V", ""),
     Rename("measure", "A", "a/b", ""), Rename("column", "x", "it's", "T"),
     Rename("measure", "A", "Sum", ""), Rename("table", "V", "TABLE", ""),
     Rename("column", "x", "column", "T"),
     Rename("measure", "A", "formatString", ""), Rename("column", "x", "IsHidden", "T"),
     Rename("column", "x", "y", "T"), Rename("column", "x", "y", "V")}

InitRename ==
    /\ fs \in RenameFolders
    /\ permission = "prompt"
    /\ parsedData = EmptyData
    /\ dependencyGraph = EmptyGraph
    /\ graphVersion = 0
    /\ previewChanges = <<>>
    /\ planVersion = 0
    /\ backups = <<>>
    /\ pc = "idle"
    /\ renameQueue = <<>>
    /\ fileQueue = <<>>
    /\ errorMessage = <<>>
    /\ shown = <<>>
    /\ preFs = fs
    /\ failures = <<>>
    /\ faults = 0
    /\ previews = 0
    /\ impact = NoImpact
    /\ circular = NoCycleCheck
    /\ deleteAnalysis = NoDeleteAnalysis
    /\ fs0 = fs
    /\ nameValidation = NoValidation
    /\ lastLoad = NoLoad
    /\ sessionData = NoSession
    /\ sessionUse = NoUse
    /\ request = NoRequest

NextRename ==
    \/ HandleFolderSelection
    \/ \E req \in RenameRequests : HandlePreviewRefactor(req)
    \/ \E answer \in {"granted", "denied"} : HandleApplyChanges(answer)
    \/ ApplyFileRename("none")
    \/ ApplyChangesToFile("none")
    \/ ApplySucceeded

SpecRename == InitRename /\ [][NextRename]_vars

\* the graph has a node of this kind with this name (in this table, for a column)
NameTaken(g, type, name, table) ==
    \E n \in DOMAIN g.nodes :
        /\ g.nodes[n].type = type
        /\ g.nodes[n].name = name
        /\ type = "column" => g.nodes[n].table = table

\* the new name of the request is one that is to be refused
MustReject(g, req, keywords) ==
    \/ req.newName = ""
    \/ req.newName = req.oldName
    \/ NameTaken(g, req.type, req.newName, req.table)
    \/ req.newName \in NamesWithInvalidChars
    \/ \E k \in keywords : EqualIgnoringCase(req.newName, k)

\* previewRename leaves no entry for a name to be refused, and applyChanges
\* called in that state refuses and leaves the folder as it is
RejectsAndAppliesNothing(keywords) ==
    /\ \A req \in RenameRequests :
          HandlePreviewRefactor(req) /\ MustReject(dependencyGraph, req, keywords)
              => previewChanges' = <<>>
    /\ \A answer \in {"granted", "denied"} :
          /\ HandleApplyChanges(answer)
          /\ request # NoRequest
          /\ MustReject(dependencyGraph, request, keywords)
          => /\ fs' = fs
             /\ pc' = "idle"
             /\ errorMessage' = MsgNoChanges

\* C16: previewRename leaves the ChangeSet empty when the new name is empty,
\* equals the old name, is the name of an existing node of the same kind,
\* contains a blacklisted character or is a reserved keyword; applyChanges
\* after such a rejection has nothing to apply and changes no file.
C16_InvalidNamesRejected ==
    [][RejectsAndAppliesNothing(daxReservedKeywords \cup tmdlReservedKeywords)]_vars

\* the part of C16 that holds: as C16, for the DAX keywords and the TMDL
\* keywords written in small letters
C16_InvalidNamesRejectedSmallLetterKeywords ==
    [][RejectsAndAppliesNothing(
           daxReservedKeywords \cup {t \in tmdlReservedKeywords : toLowerCase(t) = t})]_vars

\* a rename to the keyword formatString has been planned
C16_Witness ==
    /\ request = Rename("measure", "A", "formatString", "")
    /\ request.newName \in tmdlReservedKeywords
    /\ previewChanges # <<>>

\* a rename to a taken name was refused, and so was applying after it
C16_WitnessRejected ==
    /\ request = Rename("measure", "A", "B", "")
    /\ NameTaken(dependencyGraph, "measure", "B", "")
    /\ previewChanges = <<>>
    /\ errorMessage = MsgNoChanges
    /\ fs = fs0

\* the measures renamed to a fresh name and back: <<M, M2>>
RoundTrips == {<<"A", "C">>, <<"B", "D">>}

\* the rename of M2 to M has just been applied; the folder had no measure M2
\* at the start, so the rename of M to M2 was applied before it
RoundTripApplied(M, M2) ==
    /\ pc = "idle"
    /\ request = Rename("measure", M2, M, "")
    /\ previews = 2
    /\ shown = MsgSuccess
    /\ previewChanges = <<>>
    /\ HasNode(dependencyGraph, MeasureId(M))

\* C20: after the rename of a measure M to a fresh name M2 has been planned
\* and applied, and then the rename of M2 to M, every file has the content it
\* had before the first rename.
C20_RenameRoundTrip ==
    \A rt \in RoundTrips : RoundTripApplied(rt[1], rt[2]) => fs = fs0

\* the part of C20 that holds: the round trip restores a folder in which the
\* measure is referred to in the spelling of its declaration only
C20_RenameRoundTripSameSpelling ==
    \A rt \in RoundTrips :
        RoundTripApplied(rt[1], rt[2]) /\ fs0 = InitialFiles => fs = fs0

\* A was renamed to C and back, and Measure.tmdl is not as it was
C20_Witness ==
    /\ RoundTripApplied("A", "C")
    /\ fs[MeasureFile] # fs0[MeasureFile]

\* A was renamed to C and back, and the folder is as it was
C20_WitnessRestored ==
    /\ RoundTripApplied("A", "C")
    /\ fs = fs0

(***************************************************************************)
(* Claims on the shape of the ChangeSet (SpecPlan).                        *)
(***************************************************************************)
\* the nodes of one type that use the node of the request
UsersOfType(type) ==
    LET usedBy == dependencyGraph.nodes[RequestNodeId].usedBy
    IN  {usedBy[k].ref : k \in {j \in 1..Len(usedBy) : usedBy[j].type = type}}

\* how many entries of the ChangeSet have this type and are about this artifact
EditCount(type, about) ==
    Cardinality({k \in 1..Len(previewChanges) :
                    previewChanges[k].type = type /\ previewChanges[k].about = about})

EditCountOfType(type) ==
    Cardinality({k \in 1..Len(previewChanges) : previewChanges[k].type = type})

C18_WitnessTwice ==
    /\ PlanShown
    /\ request = [type |-> "measure", oldName |-> "A", newName |-> "Z", table |-> ""]
    /\ parsedData.measures[3].dax = <<"[", "A", "]", "+", "[", "A", "]">>
    /\ EditCount("measure-dax-reference", "C") = 1

\* a measure that nothing uses is renamed: the definition edit alone
C18_WitnessUnused ==
    /\ PlanShown
    /\ request.type = "measure"
    /\ dependencyGraph.nodes[RequestNodeId].usedBy = <<>>
    /\ Len(previewChanges) = 1

\* the relationships with the column of the request at one of their ends
RelationshipsOfRequest ==
    {parsedData.relationships[k].name : k \in
        {j \in 1..Len(parsedData.relationships) :
            LET rel == parsedData.relationships[j]
            IN  \/ (rel.fromTable = request.table /\ rel.fromColumn = request.oldName)
                \/ (rel.toTable = request.table /\ rel.toColumn = request.oldName)}}

\* the edits of a column rename other than those of measures: one definition
\* edit, one edit per visual and one per relationship using the column
ColumnRenameOtherEdits ==
    /\ EditCountOfType("column-definition") = 1
    /\ previewChanges[1].type = "column-definition"
    /\ \A v \in UsersOfType("visual") : EditCount("visual-column-reference", v) = 1
    /\ \A r \in RelationshipsOfRequest : EditCount("relationship-reference", r) = 1

\* C19: the ChangeSet of a column rename has exactly one reference edit for
\* each measure that refers to the column, however often its expression does,
\* one definition edit, one edit per visual and one per relationship using
\* the column.
C19_ColumnRenameChangeSet ==
    PlanShown /\ request.type = "column" =>
        /\ ColumnRenameOtherEdits
        /\ \A m \in UsersOfType("measure") :
              EditCount("column-dax-reference", dependencyGraph.nodes[m].name) = 1

\* the part of C19 that holds: a measure has one reference edit for each
\* reference of its expression to the column
C19_ColumnRenameEditPerReference ==
    PlanShown /\ request.type = "column" =>
        /\ ColumnRenameOtherEdits
        /\ \A m \in UsersOfType("measure") :
              EditCount("column-dax-reference", dependencyGraph.nodes[m].name)
                 = RefCount(dependencyGraph.nodes[RequestNodeId].usedBy, m)

\* the column T[x] is renamed, the measure A refers to it twice and has two edits
C19_Witness ==
    /\ PlanShown
    /\ request = [type |-> "column", oldName |-> "x", newName |-> "Z", table |-> "T"]
    /\ parsedData.measures[1].dax = <<"T", "[", "x", "]", "+", "T", "[", "x", "]">>
    /\ EditCount("column-dax-reference", "A") = 2

\* a column used by a measure, a visual and a relationship is renamed
C19_WitnessOnce ==
    /\ PlanShown
    /\ request.type = "column"
    /\ \E m \in UsersOfType("measure") :
          EditCount("column-dax-reference", dependencyGraph.nodes[m].name) = 1
    /\ UsersOfType("visual") # {}
    /\ RelationshipsOfRequest # {}

(***************************************************************************)
(* Reloading: the user selects a project folder, again and again; the      *)
(* folder selected may be another one, and the parse of a table file may   *)
(* fail.                                                                   *)
(***************************************************************************)
\* the catch block of parseTableTMDL: the failure is logged and a table
\* without columns, named after the file, is returned
parseTableTMDLCaught(fileName) ==
    [tableName |-> fileName, columns |-> <<>>,
     isCalculationGroup |-> FALSE, calculationItems |-> <<>>,
     isFieldParameter |-> FALSE, fieldParameterRefs |-> <<>>]

\* the table loop of loadPBIPFiles; failing holds the files on which the body
\* of parseTableTMDL throws.  parseTableTMDL returns in either case, so the
\* catch of the loop is not entered and nothing is pushed on tableParseErrors
LoadTables(tableFiles, failing) ==
    FoldLeft(LAMBDA acc, tableFile :
                [acc EXCEPT !.tables =
                    Append(@, IF tableFile.fileName \in failing
                              THEN parseTableTMDLCaught(tableFile.fileName)
                              ELSE parseTableTMDL(tableFile.content, tableFile.fileName))],
             [tables |-> <<>>, tableParseErrors |-> <<>>], tableFiles)

\* loadPBIPFiles with the parse failures of this load
loadPBIPFilesFailing(files, previous, failing) ==
    [loadPBIPFiles(files, previous) EXCEPT
        !.tables = LoadTables(readSemanticModelFiles(files).tables, failing).tables]

MsgTablesSkipped == <<"Warning:", "table(s)", "could", "not", "be", "parsed", "and", "were", "skipped">>

\* the project folders a user may select: each file in one of its forms
ProjectFolders ==
    {[p \in Paths |->
        CASE p = MeasureFile -> m
          [] p = RelationshipsFile -> r
          [] p = TableFile("T") -> t
          [] p = TableFile("V") -> v
          [] p = VisualFile("p1", "v1") -> InitialFiles[p]
          [] OTHER -> NoFile] :
        m \in {InitialFiles[MeasureFile], NoFile,
               <<"measure", "M2", "=", "SUM", "(", "V", "[", "x", "]", ")">>},
        r \in {InitialFiles[RelationshipsFile], NoFile},
        t \in {InitialFiles[TableFile("T")], NoFile},
        v \in {InitialFiles[TableFile("V")]}}

\* handleFolderSelection with the folder picked and the parses that fail
SelectFolder(folder, failing) ==
    /\ pc = "idle"
    /\ graphVersion < MaxReloads
    /\ fs' = folder
    /\ parsedData' = loadPBIPFilesFailing(folder, parsedData, failing)
    /\ dependencyGraph' = buildDependencyGraph(parsedData')
    /\ graphVersion' = graphVersion + 1
    /\ lastLoad' = [failing |-> failing,
                    tableParseErrors |->
                        LoadTables(readSemanticModelFiles(folder).tables,
                                   failing).tableParseErrors]
    /\ shown' = IF lastLoad'.tableParseErrors # <<>>
                THEN MsgTablesSkipped \o lastLoad'.tableParseErrors
                ELSE shown
    /\ UNCHANGED <<permission, previewChanges, planVersion, impact, circular,
                   deleteAnalysis, fs0, nameValidation, previews, request,
                   sessionData, sessionUse>>
    /\ UNCHANGED applyVars

NextReload ==
    \E folder \in ProjectFolders, failing \in SUBSET {"T", "V"} : SelectFolder(folder, failing)

SpecReload == Init /\ [][NextReload]_vars

\* what a load of the folder gives when nothing was loaded before it
FreshLoad == loadPBIPFilesFailing(fs, EmptyData, lastLoad.failing)

Reloaded == graphVersion > 0

\* C21: after every reload the graph holds exactly the nodes and edges of the
\* model just read, and no measure or relationship of a model loaded before
\* is left in the parsed data.
C21_GraphRebuiltFromNewModel ==
    Reloaded =>
        /\ parsedData.measures = FreshLoad.measures
        /\ parsedData.relationships = FreshLoad.relationships
        /\ dependencyGraph = buildDependencyGraph(FreshLoad)

\* the part of C21 that holds: the graph is that of the parsed data, tables
\* and visuals are those just read, and so is everything when the folder has
\* a Measure.tmdl and a relationships.tmdl
C21_GraphRebuiltWhenFilesPresent ==
    Reloaded =>
        /\ dependencyGraph = buildDependencyGraph(parsedData)
        /\ parsedData.tables = FreshLoad.tables
        /\ parsedData.visuals = FreshLoad.visuals
        /\ (Exists(fs, MeasureFile) /\ Exists(fs, RelationshipsFile)
               => parsedData = FreshLoad)

\* the folder selected second has no Measure.tmdl, and the measure A of the
\* folder selected first is still a node of the graph
C21_Witness ==
    /\ graphVersion = 2
    /\ ~Exists(fs, MeasureFile)
    /\ HasNode(dependencyGraph, MeasureId("A"))

\* a second folder with other measures has been loaded: A is gone
C21_WitnessReplaced ==
    /\ graphVersion = 2
    /\ HasNode(dependencyGraph, MeasureId("M2"))
    /\ ~HasNode(dependencyGraph, MeasureId("A"))

\* the table files of the folder whose parse failed in the last load
FailedTables == {t \in lastLoad.failing : Exists(fs, TableFile(t))}

\* the table files of the folder whose parse succeeded
ParsedTables ==
    {TableFileStems[k] : k \in {j \in 1..Len(TableFileStems) :
                                   Exists(fs, TableFile(TableFileStems[j]))}}
        \ lastLoad.failing

TableLoaded(t) ==
    /\ HasNode(dependencyGraph, TableId(t))
    /\ \E k \in 1..Len(parsedData.tables) :
          /\ parsedData.tables[k].tableName = t
          /\ parsedData.tables[k].columns # <<>>
          /\ \A c \in Range(parsedData.tables[k].columns) :
                HasNode(dependencyGraph, ColumnId(t, c))

\* C22: a table whose parse failed is not in the loaded model (no table node,
\* no column node), the other tables are loaded, and the caller is given the
\* skipped tables.
C22_FailedTableSkippedAndReported ==
    Reloaded =>
        /\ \A t \in FailedTables :
              /\ ~HasNode(dependencyGraph, TableId(t))
              /\ \A k \in 1..Len(parsedData.tables) : parsedData.tables[k].tableName # t
              /\ t \in Range(lastLoad.tableParseErrors)
        /\ \A t \in ParsedTables : TableLoaded(t)

\* the part of C22 that holds: the load goes on, the other tables are loaded,
\* and no column node is made for the table whose parse failed
C22_OtherTablesLoaded ==
    Reloaded =>
        /\ \A t \in FailedTables :
              \A n \in DOMAIN dependencyGraph.nodes :
                  dependencyGraph.nodes[n].type = "column"
                     => dependencyGraph.nodes[n].table # t
        /\ \A t \in ParsedTables : TableLoaded(t)

\* the parse of T.tmdl failed: T is a table of the model, without columns,
\* and no table was reported as skipped
C22_Witness ==
    /\ Reloaded
    /\ FailedTables = {"T"}
    /\ HasNode(dependencyGraph, TableId("T"))
    /\ TableLoaded("V")
    /\ lastLoad.tableParseErrors = <<>>
    /\ shown = <<>>


(***************************************************************************)
(* Clicks while an apply is in flight.  handleApplyChanges awaits          *)
(* applyChanges, which awaits every file operation; between two awaits the *)
(* page handles further clicks.  The listeners of the folder button and of *)
(* the preview button test no flag and the buttons are not disabled.       *)
(***************************************************************************)
\* applyChanges has passed the permission check and has not yet resolved or rejected
InFlight == pc \in {"applying", "failed"}

\* the preview button is clicked while applyChanges awaits a file operation
PreviewWhileApplying(req) ==
    /\ InFlight
    /\ graphVersion > 0
    /\ previews < MaxPreviews
    /\ LET result == previewRename(dependencyGraph, parsedData, req.oldName, req.newName,
                                   req.type, req.table)
       IN  /\ previewChanges' = result.changes
           /\ shown' = IF result.ok THEN <<>> ELSE <<"Error", "previewing", "rename">>
    /\ backups' = <<>>
    /\ planVersion' = graphVersion
    /\ previews' = previews + 1
    /\ request' = req
    /\ UNCHANGED <<fs, permission, impact, circular, deleteAnalysis, fs0, nameValidation,
                   lastLoad, sessionData, sessionUse, pc, renameQueue, fileQueue, errorMessage, preFs, failures, faults>>
    /\ UNCHANGED graphVars

\* the folder button is clicked while applyChanges awaits a file operation
FolderSelectionWhileApplying ==
    /\ InFlight
    /\ graphVersion < MaxReloads
    /\ parsedData' = loadPBIPFiles(fs, parsedData)
    /\ dependencyGraph' = buildDependencyGraph(parsedData')
    /\ graphVersion' = graphVersion + 1
    /\ UNCHANGED <<fs, permission, previewChanges, planVersion, shown, impact, circular,
                   deleteAnalysis, fs0, nameValidation, lastLoad, sessionData, sessionUse, previews, request>>
    /\ UNCHANGED applyVars

NextConcurrent ==
    \/ HandleFolderSelection
    \/ \E req \in Requests : HandlePreviewRefactor(req)
    \/ \E answer \in {"granted", "denied"} : HandleApplyChanges(answer)
    \/ \E fault \in {"none", "write"} : ApplyFileRename(fault)
    \/ \E fault \in {"none", "write"} : ApplyChangesToFile(fault)
    \/ ApplySucceeded
    \/ Rollback(0, "early")
    \/ \E req \in Requests : PreviewWhileApplying(req)
    \/ FolderSelectionWhileApplying

SpecConcurrent == Init /\ [][NextConcurrent]_vars

\* the backups taken so far are all still held
BackupsKept == Len(backups') >= Len(backups) /\ SubSeq(backups', 1, Len(backups)) = backups

\* C23: while applyChanges is in flight no reload or graph rebuild and no previewRename
\* starts, so the ChangeSet being applied and the backups taken are neither cleared
\* nor replaced before applyChanges resolves or rejects
C23_NoHandlerStartsDuringApply ==
    [][InFlight /\ pc' # "idle"
         => /\ previewChanges' = previewChanges
            /\ BackupsKept
            /\ previews' = previews
            /\ graphVersion' = graphVersion]_vars

\* an apply is in flight and the ChangeSet it is applying has been cleared by a preview
C23_Witness == pc = "applying" /\ previewChanges = <<>> /\ request.newName = "table"

\* an apply has failed after its backups were cleared by a preview: nothing to restore
C23_WitnessBackupsLost == pc = "failed" /\ backups = <<>> /\ fs # preFs


(***************************************************************************)
(* Claims on the files after a rename has been applied (SpecRename).       *)
(***************************************************************************)
\* the measures that Measure.tmdl declares, as the parser reads it
DeclaredMeasures(files) ==
    LET measures == parseMeasuresTMDL(files[MeasureFile])
    IN  {measures[k].name : k \in 1..Len(measures)}

\* the columns that the definition file of the table declares, as the parser reads it
DeclaredColumns(files, tableName) ==
    LET columns == parseTableTMDL(files[TableFile(tableName)], tableName).columns
    IN  {columns[k] : k \in 1..Len(columns)}

\* the names of the kind of the request that its definition file declares
DeclaredNames(files, req) ==
    IF req.type = "measure" THEN DeclaredMeasures(files)
    ELSE DeclaredColumns(files, req.table)

\* the ChangeSet of the request, a measure or column rename, has just been applied
RenameApplied ==
    /\ pc = "idle"
    /\ shown = MsgSuccess
    /\ request.type \in {"measure", "column"}

\* the definition file declares the entity of the request under the new name only
DeclaredUnderNewName ==
    /\ request.newName \in DeclaredNames(fs, request)
    /\ request.oldName \notin DeclaredNames(fs, request)

\* the definition file declared the entity of the request in quotes before the apply
DeclaredInQuotes ==
    IF request.type = "measure"
    THEN Includes(preFs[MeasureFile], <<"measure", "'", request.oldName, "'", "=">>)
    ELSE Includes(preFs[TableFile(request.table)], <<"column", "'", request.oldName, "'">>)

\* C24: after a measure or column rename has been applied successfully, the
\* definition file declares the entity under the new name and no longer under
\* the old name, whether the declaration was written 'Name' or Name.
C24_DefinitionRenamed == RenameApplied => DeclaredUnderNewName

\* the part of C24 that holds: as C24, for a declaration written in quotes
C24_QuotedDefinitionRenamed == RenameApplied /\ DeclaredInQuotes => DeclaredUnderNewName

\* the rename of the measure B, declared without quotes, to D has been applied
C24_Witness ==
    /\ RenameApplied
    /\ request = Rename("measure", "B", "D", "")
    /\ ~DeclaredInQuotes
    /\ "B" \in DeclaredMeasures(fs)

\* the rename of the column x of V, declared without quotes, has been applied
C24_WitnessColumn ==
    /\ RenameApplied
    /\ request = Rename("column", "x", "y", "V")
    /\ "x" \in DeclaredColumns(fs, "V")

\* the rename of the column x of T, declared in quotes, has been applied
C24_WitnessQuoted ==
    /\ RenameApplied
    /\ request = Rename("column", "x", "y", "T")
    /\ DeclaredColumns(fs, "T") = {"y"}


\* the qualified column references of each measure of Measure.tmdl that satisfy keep
ColumnRefsIn(files, keep(_)) ==
    LET measures == parseMeasuresTMDL(files[MeasureFile])
    IN  [k \in 1..Len(measures) |->
            SelectSeq(extractColumnReferences(measures[k].dax), keep)]

\* the column fields of each visual that satisfy keep
ColumnFieldsIn(files, keep(_)) ==
    [k \in 1..Len(ReportVisuals) |->
        SelectSeq(extractFieldReferences(
                      files[VisualFile(ReportVisuals[k].pageId, ReportVisuals[k].visualId)]),
                  LAMBDA f : f.type = "column" /\ keep(f))]

\* the applied measure rename left the column references Table[old] as they were
MeasureRenameFrame ==
    ColumnRefsIn(fs, LAMBDA ref : ref.column = request.oldName)
        = ColumnRefsIn(preFs, LAMBDA ref : ref.column = request.oldName)

\* the applied rename of the column c of T left the references to a column c
\* of another table as they were, in the expressions and in the visuals
ColumnRenameFrame ==
    /\ ColumnRefsIn(fs, LAMBDA ref : ref.column = request.oldName /\ ref.table # request.table)
         = ColumnRefsIn(preFs, LAMBDA ref : ref.column = request.oldName
                                              /\ ref.table # request.table)
    /\ ColumnFieldsIn(fs, LAMBDA f : f.property = request.oldName /\ f.entity # request.table)
         = ColumnFieldsIn(preFs, LAMBDA f : f.property = request.oldName
                                              /\ f.entity # request.table)

\* the expressions half of ColumnRenameFrame
ColumnRenameFrameInDAX ==
    ColumnRefsIn(fs, LAMBDA ref : ref.column = request.oldName /\ ref.table # request.table)
      = ColumnRefsIn(preFs, LAMBDA ref : ref.column = request.oldName
                                           /\ ref.table # request.table)

\* C25: an applied rename of the measure old leaves every qualified column
\* reference Table[old] as it was, and an applied rename of the column c of T
\* leaves every reference to a column c of another table as it was, in the
\* measure expressions and in the visual fields.
C25_RenameFrame ==
    RenameApplied =>
        IF request.type = "measure" THEN MeasureRenameFrame ELSE ColumnRenameFrame

\* the part of C25 that holds: a column rename leaves the qualified references
\* to the columns of other tables in the measure expressions as they were
C25_ColumnRenameFrameInDAX ==
    RenameApplied /\ request.type = "column" => ColumnRenameFrameInDAX

\* the measure A has been renamed in a folder whose measure B refers to V[A]
C25_Witness ==
    /\ RenameApplied
    /\ request = Rename("measure", "A", "C", "")
    /\ fs0 = FolderWithHomonyms
    /\ ~MeasureRenameFrame

\* the column x of T has been renamed in a folder whose visual shows x of V
C25_WitnessColumn ==
    /\ RenameApplied
    /\ request = Rename("column", "x", "y", "T")
    /\ fs0 = FolderWithHomonyms
    /\ ColumnRenameFrameInDAX
    /\ ~ColumnRenameFrame


(***************************************************************************)
(* Claims on the analyses of the graph (SpecAnalysis).                     *)
(***************************************************************************)
\* analyzeDelete has rated the target safe to delete
RatedSafe == DeleteAnalysed /\ deleteAnalysis.riskLevel = "safe"

\* C26: analyzeDelete returns 'safe' only when nothing depends on the target:
\* no node of any kind is downstream of it, calculation items, calculation
\* groups and parameter tables included, and no relationship uses it.
C26_SafeMeansNoDependents ==
    RatedSafe =>
        /\ DependentsOfTypes(dependencyGraph, deleteAnalysis.targetNode, AllNodeTypes) = {}
        /\ RelationshipsOn(dependencyGraph, deleteAnalysis.targetNode) = {}

\* the part of C26 that holds: no measure and no visual is downstream of a
\* target rated safe, and no relationship uses it
C26_SafeMeansNoMeasureOrVisual ==
    RatedSafe =>
        /\ DependentsOfTypes(dependencyGraph, deleteAnalysis.targetNode,
                             {"measure", "visual"}) = {}
        /\ RelationshipsOn(dependencyGraph, deleteAnalysis.targetNode) = {}

\* a target rated safe that a calculation item depends on
C26_Witness ==
    /\ RatedSafe
    /\ DependentsOfTypes(dependencyGraph, deleteAnalysis.targetNode, {"calculationItem"}) # {}

\* a target rated safe that nothing depends on
C26_WitnessSafe ==
    /\ RatedSafe
    /\ DependentsOfTypes(dependencyGraph, deleteAnalysis.targetNode, AllNodeTypes) = {}
    /\ dependencyGraph.nodes[deleteAnalysis.targetNode].type = "column"


\* the bracketed identifiers of the expression that follow no table prefix
RECURSIVE UnqualifiedRefsFrom(_, _)
UnqualifiedRefsFrom(dax, i) ==
    IF i + 2 > Len(dax) THEN {}
    ELSE IF /\ dax[i] = "[" /\ dax[i + 1] \notin {"[", "]"} /\ dax[i + 2] = "]"
            /\ (i = 1 \/ ~(IsWord(dax[i - 1]) \/ dax[i - 1] = "'"))
         THEN {dax[i + 1]} \cup UnqualifiedRefsFrom(dax, i + 3)
         ELSE UnqualifiedRefsFrom(dax, i + 1)

\* the identifiers that the expression has only behind a table prefix
QualifiedOnly(dax) ==
    LET columnRefs == extractColumnReferences(dax)
    IN  {columnRefs[k].column : k \in 1..Len(columnRefs)} \ UnqualifiedRefsFrom(dax, 1)

\* the measure has a measure dependency on, or an orphaned measure reference to, name
MeasureReferenceTo(g, measureName, name) ==
    \/ \E k \in 1..Len(g.edges) :
          /\ g.edges[k].from = MeasureId(measureName)
          /\ g.edges[k].to = MeasureId(name)
    \/ [kind |-> "measure", nodeId |-> MeasureId(measureName), name |-> name]
          \in RecordedOrphans(g)

\* C27: a bracketed identifier right after a table prefix, Table[x] or
\* 'Table'[x], is reported as a column reference and not as a measure
\* reference: it gives the measure neither a measure dependency nor an
\* orphaned measure reference.
C27_QualifiedNameIsColumnOnly ==
    GraphBuilt =>
        \A i \in 1..Len(parsedData.measures) :
            \A name \in QualifiedOnly(parsedData.measures[i].dax) :
                /\ name \notin Range(extractMeasureReferences(parsedData.measures[i].dax))
                /\ ~MeasureReferenceTo(dependencyGraph, parsedData.measures[i].name, name)

\* the part of C27 that holds: every qualified reference is reported as a column reference
C27_QualifiedNameIsColumn ==
    GraphBuilt =>
        \A i \in 1..Len(parsedData.measures) :
            LET columnRefs == extractColumnReferences(parsedData.measures[i].dax)
                columnId(k) == ColumnId(columnRefs[k].table, columnRefs[k].column)
            IN  \A k \in 1..Len(columnRefs) :
                    HasNode(dependencyGraph, columnId(k))
                        => \E e \in 1..Len(dependencyGraph.edges) :
                              /\ dependencyGraph.edges[e].from
                                   = MeasureId(parsedData.measures[i].name)
                              /\ dependencyGraph.edges[e].to = columnId(k)

\* the measure B is SUM(T[C]) and has a dependency on the measure C
C27_Witness ==
    /\ GraphBuilt
    /\ \E i \in 1..Len(parsedData.measures) :
          /\ parsedData.measures[i].name = "B"
          /\ "C" \in QualifiedOnly(parsedData.measures[i].dax)
    /\ \E k \in 1..Len(dependencyGraph.edges) :
          /\ dependencyGraph.edges[k].from = MeasureId("B")
          /\ dependencyGraph.edges[k].to = MeasureId("C")

\* the measure A is SUM(T[x]) and has an orphaned measure reference to x
C27_WitnessOrphan ==
    /\ GraphBuilt
    /\ \E i \in 1..Len(parsedData.measures) :
          /\ parsedData.measures[i].name = "A"
          /\ "x" \in QualifiedOnly(parsedData.measures[i].dax)
    /\ [kind |-> "measure", nodeId |-> MeasureId("A"), name |-> "x"]
          \in RecordedOrphans(dependencyGraph)


\* the graph has an edge from one node to the other
Linked(g, from, to) ==
    \E k \in 1..Len(g.edges) : g.edges[k].from = from /\ g.edges[k].to = to

\* the column fields of the visuals that have a node: <<visual node id, field>>
ColumnFieldsOfVisuals ==
    UNION {{<<VisualId(parsedData.visuals[i].pageId, parsedData.visuals[i].visualId),
              parsedData.visuals[i].fields[k]>> :
              k \in {j \in 1..Len(parsedData.visuals[i].fields) :
                        parsedData.visuals[i].fields[j].type = "column"}} :
           i \in 1..Len(parsedData.visuals)}

\* the field of a parameter table is wired to the parameter-table node only
WiredToParameterTable(v, f) ==
    HasNode(dependencyGraph, FieldParamId(f.entity))
        => /\ Linked(dependencyGraph, v, FieldParamId(f.entity))
           /\ ~Linked(dependencyGraph, v, ColumnId(f.entity, f.property))

\* the field of a calculation group is wired to the calculation-group node only
WiredToCalculationGroup(v, f) ==
    /\ ~HasNode(dependencyGraph, FieldParamId(f.entity))
    /\ HasNode(dependencyGraph, CalcGroupId(f.entity))
    => /\ Linked(dependencyGraph, v, CalcGroupId(f.entity))
       /\ ~Linked(dependencyGraph, v, ColumnId(f.entity, f.property))

\* the field of a plain table is wired to its column node
WiredToColumn(v, f) ==
    /\ ~HasNode(dependencyGraph, FieldParamId(f.entity))
    /\ ~HasNode(dependencyGraph, CalcGroupId(f.entity))
    /\ HasNode(dependencyGraph, ColumnId(f.entity, f.property))
    => Linked(dependencyGraph, v, ColumnId(f.entity, f.property))

\* C28: a visual field of a parameter table is linked to the parameter-table
\* node; otherwise a field of a calculation group to the calculation-group
\* node; only otherwise to the column node.  A field of a parameter table or
\* of a calculation group is never linked to the column node.
C28_VisualFieldPrecedence ==
    GraphBuilt =>
        \A vf \in ColumnFieldsOfVisuals :
            /\ WiredToParameterTable(vf[1], vf[2])
            /\ WiredToCalculationGroup(vf[1], vf[2])
            /\ WiredToColumn(vf[1], vf[2])

\* the part of C28 that holds: calculation group before column, and a field
\* located in the fieldParameter section goes to the parameter table
C28_CalculationGroupBeforeColumn ==
    GraphBuilt =>
        \A vf \in ColumnFieldsOfVisuals :
            /\ vf[2].location = "fieldParameter" => WiredToParameterTable(vf[1], vf[2])
            /\ WiredToCalculationGroup(vf[1], vf[2])
            /\ WiredToColumn(vf[1], vf[2])

\* a field of the parameter table FP, read from the query of the visual, is
\* linked to the column FP.FP
C28_Witness ==
    /\ GraphBuilt
    /\ \E vf \in ColumnFieldsOfVisuals :
          /\ vf[2].entity = "FP"
          /\ vf[2].location = "queryState"
          /\ HasNode(dependencyGraph, FieldParamId("FP"))
          /\ Linked(dependencyGraph, vf[1], ColumnId("FP", vf[2].property))
          /\ ~Linked(dependencyGraph, vf[1], FieldParamId("FP"))

\* a field of the calculation group CG is linked to the group and not to its column
C28_WitnessCalculationGroup ==
    /\ GraphBuilt
    /\ \E vf \in ColumnFieldsOfVisuals :
          /\ vf[2].entity = "CG"
          /\ HasNode(dependencyGraph, ColumnId("CG", vf[2].property))
          /\ Linked(dependencyGraph, vf[1], CalcGroupId("CG"))
          /\ ~Linked(dependencyGraph, vf[1], ColumnId("CG", vf[2].property))


(***************************************************************************)
(* The closures and the cycle detection on graphs with cycles: a graph is  *)
(* built, then queried by analyzeImpact and detectCircularDependencies.    *)
(***************************************************************************)
NextClosure ==
    \/ BuildDependencyGraph
    \/ \E nodeId \in DOMAIN dependencyGraph.nodes, maxDepth \in DepthArgs :
          AnalyzeImpact(nodeId, maxDepth)
    \/ DetectCircularDependencies

SpecClosure == InitGraph /\ [][NextClosure]_vars

\* the entries of a grouped result, over all groups
EntriesOf(grouped) ==
    grouped.measures \o grouped.columns \o grouped.tables \o grouped.visuals
      \o grouped.calculationItems \o grouped.calculationGroups \o grouped.fieldParameters

\* the result lists no node twice and does not list the start node
ListsOnceWithoutStart(grouped, start) ==
    LET entries == EntriesOf(grouped)
    IN  /\ \A i, j \in 1..Len(entries) : entries[i].nodeId = entries[j].nodeId => i = j
        /\ \A i \in 1..Len(entries) : entries[i].nodeId # start

\* a measure that is on a cycle of measure dependencies, a self-reference included
RECURSIVE ReachesByDependencies(_, _, _, _)
ReachesByDependencies(g, from, to, fuel) ==
    /\ fuel > 0
    /\ HasNode(g, from)
    /\ \E k \in 1..Len(g.nodes[from].dependencies) :
          \/ g.nodes[from].dependencies[k].ref = to
          \/ ReachesByDependencies(g, g.nodes[from].dependencies[k].ref, to, fuel - 1)

OnSomeCycle(g, n) == ReachesByDependencies(g, n, n, Cardinality(DOMAIN g.nodes))

\* a reported cycle is a path of distinct nodes closed by its first node
ClosedPath(cycle) ==
    /\ Len(cycle) >= 2
    /\ cycle[1] = cycle[Len(cycle)]
    /\ \A i, j \in 1..(Len(cycle) - 1) : cycle[i] = cycle[j] => i = j

\* C29: findAllUpstream, findAllDownstream and detectCircularDependencies
\* return on every graph, with cycles and self-references too; each closure
\* lists a node at most once and never the node it started from, and every
\* cycle reported is a closed path of distinct nodes.
C29_ClosuresTerminateAndListOnce ==
    /\ ImpactShown =>
          /\ ListsOnceWithoutStart(
                 findAllUpstream(dependencyGraph, impact.target, impact.maxDepth),
                 impact.target)
          /\ ListsOnceWithoutStart(
                 findAllDownstream(dependencyGraph, impact.target, impact.maxDepth),
                 impact.target)
          /\ impact.target \notin impact.upstream \cup impact.downstream
    /\ CyclesChecked =>
          \A k \in 1..Len(circular.cycles) :
              /\ ClosedPath(circular.cycles[k])
              /\ Len(circular.cycles[k]) <= Cardinality(DOMAIN dependencyGraph.nodes) + 1

\* the closures of a measure that is on a cycle have been computed, without a
\* depth bound, and list the other measures of the cycle
C29_Witness ==
    /\ ImpactShown
    /\ impact.maxDepth = Unbounded
    /\ dependencyGraph.nodes[impact.target].type = "measure"
    /\ OnSomeCycle(dependencyGraph, impact.target)
    /\ impact.upstream \cap impact.downstream # {}

\* the closures of a measure that refers to itself have been computed
C29_WitnessSelfReference ==
    /\ ImpactShown
    /\ impact.maxDepth = Unbounded
    /\ \E k \in 1..Len(dependencyGraph.nodes[impact.target].dependencies) :
          dependencyGraph.nodes[impact.target].dependencies[k].ref = impact.target

\* the detection has returned a self-reference as a cycle
C29_WitnessCycles ==
    /\ CyclesChecked
    /\ \E k \in 1..Len(circular.cycles) : Len(circular.cycles[k]) = 2


(***************************************************************************)
(* SessionManager: the recent analyses.  Node ids are numbered in the      *)
(* order in which the nodes are analysed for the first time; the timestamp *)
(* of an entry is the number of the call that made it.                     *)
(***************************************************************************)
MaxNodes == 12
MaxRepeats == 2

\* "Keep only last 10"
RecentLimit == 10

\* an array in which the entry of the node is not removed before the new one is added
addRecentAnalysisKeepsOld(data, nodeId, nodeName, nodeType, timestamp) ==
    LET added == <<[nodeId |-> nodeId, name |-> nodeName, type |-> nodeType,
                    timestamp |-> timestamp]>> \o data.recentAnalyses
    IN  [data EXCEPT !.recentAnalyses =
            IF Len(added) > RecentLimit THEN SubSeq(added, 1, RecentLimit) ELSE added]

addRecentAnalysis(data, nodeId, nodeName, nodeType, timestamp) ==
    LET filtered == SelectSeq(data.recentAnalyses, LAMBDA a : a.nodeId # nodeId)
        added == <<[nodeId |-> nodeId, name |-> nodeName, type |-> nodeType,
                    timestamp |-> timestamp]>> \o filtered
    IN  [data EXCEPT !.recentAnalyses =
            IF Len(added) > RecentLimit THEN SubSeq(added, 1, RecentLimit) ELSE added]

\* the entries a user picks again: the most recent two and the oldest
RepeatPositions(list) == {1, 2, Len(list)} \cap (1..Len(list))

\* a node is analysed for the first time
AnalyzeNewNode ==
    /\ sessionUse.nodes < MaxNodes
    /\ sessionData' = addRecentAnalysis(sessionData, sessionUse.nodes + 1, "", "measure",
                                        sessionUse.calls + 1)
    /\ sessionUse' = [sessionUse EXCEPT !.calls = @ + 1, !.nodes = @ + 1]
    /\ UNCHANGED <<fs, permission, previewChanges, planVersion, shown, previews, request,
                   impact, circular, deleteAnalysis, fs0, nameValidation, lastLoad>>
    /\ UNCHANGED graphVars
    /\ UNCHANGED applyVars

\* a node of the list is analysed again
AnalyzeListedNode(position) ==
    /\ sessionUse.repeats < MaxRepeats
    /\ position \in RepeatPositions(sessionData.recentAnalyses)
    /\ sessionData' = addRecentAnalysis(sessionData,
                                        sessionData.recentAnalyses[position].nodeId,
                                        "", "measure", sessionUse.calls + 1)
    /\ sessionUse' = [sessionUse EXCEPT !.calls = @ + 1, !.repeats = @ + 1]
    /\ UNCHANGED <<fs, permission, previewChanges, planVersion, shown, previews, request,
                   impact, circular, deleteAnalysis, fs0, nameValidation, lastLoad>>
    /\ UNCHANGED graphVars
    /\ UNCHANGED applyVars

NextSession ==
    \/ AnalyzeNewNode
    \/ \E position \in 1..RecentLimit : AnalyzeListedNode(position)

SpecSession == Init /\ [][NextSession]_vars

\* C30: after any sequence of addRecentAnalysis calls the list of recent
\* analyses has at most 10 entries, no two entries are of the same node, and
\* the entries are in the order of their analyses, the most recent first.
C30_RecentAnalysesBounded ==
    LET list == sessionData.recentAnalyses
    IN  /\ Len(list) <= 10
        /\ \A i, j \in 1..Len(list) : list[i].nodeId = list[j].nodeId => i = j
        /\ \A i, j \in 1..Len(list) : i < j => list[i].timestamp > list[j].timestamp
        /\ sessionUse.calls > 0 => list[1].timestamp = sessionUse.calls

\* an eleventh node has pushed the oldest entry out after a node was analysed again
C30_Witness ==
    /\ Len(sessionData.recentAnalyses) = 10
    /\ sessionUse.nodes > 10
    /\ sessionUse.repeats > 0
    /\ sessionData.recentAnalyses[1].nodeId < sessionData.recentAnalyses[2].nodeId

\* the oldest entry of a full list was analysed again and is now the first
C30_WitnessMovedToFront ==
    /\ Len(sessionData.recentAnalyses) = 10
    /\ sessionUse.repeats = 1
    /\ \A i \in 2..10 :
          sessionData.recentAnalyses[1].nodeId < sessionData.recentAnalyses[i].nodeId

====
